---------------------------- MODULE Spec2Model ----------------------------
(* A model of the scoring pipeline of StockSentinel:                       *)
(*   src/utils/recommendation_engine.py  RecommendationEngine              *)
(*   src/utils/financial_metrics.py      FinancialMetrics                  *)
(*   src/utils/stock_analyzer.py         StockAnalyzer                     *)
(*   src/utils/currency_converter.py     CurrencyConverter                 *)
(*                                                                         *)
(* Number representation.  The program computes in binary floating point;  *)
(* the model computes the same quantities as exact rationals:              *)
(*   - a fundamentals value x is the integer 1000 * x (thousandths), so    *)
(*     the literal 0.20 of the source is 200 and 1.5 is 1500;              *)
(*   - a sub-score s is the integer ScoreUnit * s, so that score/factors   *)
(*     is exact for every factor count the code can reach (1, 2, 3, 4);    *)
(*   - overall_score and confidence are in units of 1/OverallUnit, the     *)
(*     weights being hundredths;                                           *)
(*   - a close or a volume is an integer number of ticks; every           *)
(*     comparison of a quotient with a literal is cross-multiplied, which  *)
(*     is exact for the positive closes of a price series.                 *)
(* An absent value (Python None) is the empty tuple, a present value v is  *)
(* the one-element tuple <<v>>, so that None and a true zero differ.       *)
EXTENDS Integers, Sequences, FiniteSets, TLC

\* ---------------------------------------------------------------- values

None == << >>
Some(v) == << v >>
IsNone(x) == x = None
Val(x) == x[1]
\* Python truthiness of an optional number: None and 0 are both falsy.
Truthy(x) == x # None /\ x[1] # 0

\* The least common multiple of the factor counts by which a score is divided.
ScoreUnit == 3 * 4
\* Weights are hundredths, so an overall score is in 1/(100 * ScoreUnit).
OverallUnit == 100 * ScoreUnit
\* "return ... else 50": the neutral default of every sub-score.
NeutralScore == 50 * ScoreUnit

Abs(x) == IF x < 0 THEN -x ELSE x
Min2(a, b) == IF a <= b THEN a ELSE b

\* The keys of the metrics bundle that RecommendationEngine reads with .get().
MetricKeys ==
  { "profit_margin", "roe", "debt_to_equity", "current_ratio",
    "pe_ratio", "price_to_book", "price_to_sales",
    "revenue_growth", "earnings_growth", "dividend_yield", "beta" }

\* metrics.get(key): the bundle is a total function on MetricKeys, None for
\* a key that is missing or maps to None.
Get(metrics, key) == metrics[key]

\* self.weights, in hundredths.
InitWeights ==
  [ financial_health |-> 25, valuation |-> 25, technical |-> 25,
    growth |-> 15, momentum |-> 10 ]

\* ------------------------------------------------- financial health score

\* A variant: the ladder awards its points on the documented 0-100 scale.
ProfitabilityPointsOutOf100(v) ==
  IF v > 200 THEN 100
  ELSE IF v > 150 THEN 80
  ELSE IF v > 100 THEN 60
  ELSE IF v > 50 THEN 40
  ELSE IF v > 0 THEN 20
  ELSE 0

\* The > 0.20 / 0.15 / 0.10 / 0.05 / 0 ladder of profit margin and of ROE.
ProfitabilityPoints(v) ==
  IF v > 200 THEN 25
  ELSE IF v > 150 THEN 20
  ELSE IF v > 100 THEN 15
  ELSE IF v > 50 THEN 10
  ELSE IF v > 0 THEN 5
  ELSE 0

DebtPointsPenalised(v) ==
  IF v < 300 THEN 25
  ELSE IF v < 500 THEN 20
  ELSE IF v < 1000 THEN 15
  ELSE IF v < 2000 THEN 10
  ELSE -5

DebtPoints(v) ==
  IF v < 300 THEN 25
  ELSE IF v < 500 THEN 20
  ELSE IF v < 1000 THEN 15
  ELSE IF v < 2000 THEN 10
  ELSE 5

CurrentRatioPoints(v) ==
  IF v > 2000 THEN 25
  ELSE IF v > 1500 THEN 20
  ELSE IF v > 1200 THEN 15
  ELSE IF v > 1000 THEN 10
  ELSE 5

AverageZeroDefault(score, factors) ==
  IF factors > 0 THEN (score * ScoreUnit) \div factors ELSE 0

\* score / factors if factors > 0 else 50, in units of 1/ScoreUnit.
Average(score, factors) ==
  IF factors > 0 THEN (score * ScoreUnit) \div factors ELSE NeutralScore

calculate_financial_health_score(metrics) ==
  LET pm  == Get(metrics, "profit_margin")
      roe == Get(metrics, "roe")
      de  == Get(metrics, "debt_to_equity")
      cr  == Get(metrics, "current_ratio")
      score == (IF IsNone(pm) THEN 0 ELSE ProfitabilityPoints(Val(pm)))
             + (IF IsNone(roe) THEN 0 ELSE ProfitabilityPoints(Val(roe)))
             + (IF IsNone(de) THEN 0 ELSE DebtPoints(Val(de)))
             + (IF IsNone(cr) THEN 0 ELSE CurrentRatioPoints(Val(cr)))
      factors == (IF IsNone(pm) THEN 0 ELSE 1) + (IF IsNone(roe) THEN 0 ELSE 1)
               + (IF IsNone(de) THEN 0 ELSE 1) + (IF IsNone(cr) THEN 0 ELSE 1)
  IN Average(score, factors)

\* ------------------------------------------------------- valuation score

PEPoints(v) ==
  IF v < 10000 THEN 25
  ELSE IF v < 15000 THEN 20
  ELSE IF v < 20000 THEN 15
  ELSE IF v < 25000 THEN 10
  ELSE IF v < 35000 THEN 5
  ELSE 0

PBPoints(v) ==
  IF v < 1000 THEN 25
  ELSE IF v < 1500 THEN 20
  ELSE IF v < 2000 THEN 15
  ELSE IF v < 3000 THEN 10
  ELSE IF v < 4000 THEN 5
  ELSE 0

PSPoints(v) ==
  IF v < 1000 THEN 25
  ELSE IF v < 2000 THEN 20
  ELSE IF v < 3000 THEN 15
  ELSE IF v < 5000 THEN 10
  ELSE IF v < 7000 THEN 5
  ELSE 0

\* A variant: every ratio that is not None is bucketed and counted.
CountedWhenPresent(x) == ~IsNone(x)

\* "is not None and ... > 0": a ratio that is zero or negative is skipped.
Counted(x) == ~IsNone(x) /\ Val(x) > 0

calculate_valuation_score(metrics) ==
  LET pe == Get(metrics, "pe_ratio")
      pb == Get(metrics, "price_to_book")
      ps == Get(metrics, "price_to_sales")
      score == (IF Counted(pe) THEN PEPoints(Val(pe)) ELSE 0)
             + (IF Counted(pb) THEN PBPoints(Val(pb)) ELSE 0)
             + (IF Counted(ps) THEN PSPoints(Val(ps)) ELSE 0)
      factors == (IF Counted(pe) THEN 1 ELSE 0) + (IF Counted(pb) THEN 1 ELSE 0)
               + (IF Counted(ps) THEN 1 ELSE 0)
  IN Average(score, factors)

\* ---------------------------------------------------------- growth score

GrowthPoints(v) ==
  IF v > 250 THEN 25
  ELSE IF v > 150 THEN 20
  ELSE IF v > 100 THEN 15
  ELSE IF v > 50 THEN 10
  ELSE IF v > 0 THEN 5
  ELSE 0

\* A variant: a growth of zero or below is skipped like an absent one.
GrowthScoreOverPositive(metrics) ==
  LET rg == Get(metrics, "revenue_growth")
      eg == Get(metrics, "earnings_growth")
      score == (IF Counted(rg) THEN GrowthPoints(Val(rg)) ELSE 0)
             + (IF Counted(eg) THEN GrowthPoints(Val(eg)) ELSE 0)
      factors == (IF Counted(rg) THEN 1 ELSE 0) + (IF Counted(eg) THEN 1 ELSE 0)
  IN Average(score, factors)

calculate_growth_score(metrics) ==
  LET rg == Get(metrics, "revenue_growth")
      eg == Get(metrics, "earnings_growth")
      score == (IF IsNone(rg) THEN 0 ELSE GrowthPoints(Val(rg)))
             + (IF IsNone(eg) THEN 0 ELSE GrowthPoints(Val(eg)))
      factors == (IF IsNone(rg) THEN 0 ELSE 1) + (IF IsNone(eg) THEN 0 ELSE 1)
  IN Average(score, factors)

\* ------------------------- FinancialMetrics.get_financial_health_score
\* The health index of src/utils/financial_metrics.py, in units of
\* 1/HealthUnit: it divides by up to five factors.

HealthUnit == 3 * 4 * 5

HealthProfitMarginPoints(v) ==
  IF v > 150 THEN 20
  ELSE IF v > 100 THEN 15
  ELSE IF v > 50 THEN 10
  ELSE IF v > 0 THEN 5
  ELSE 0

HealthRoePoints(v) ==
  IF v > 200 THEN 20
  ELSE IF v > 150 THEN 15
  ELSE IF v > 100 THEN 10
  ELSE IF v > 0 THEN 5
  ELSE 0

HealthDebtPoints(v) ==
  IF v < 300 THEN 20
  ELSE IF v < 500 THEN 15
  ELSE IF v < 1000 THEN 10
  ELSE IF v < 2000 THEN 5
  ELSE 0

HealthCurrentRatioPoints(v) ==
  IF v > 2000 THEN 20
  ELSE IF v > 1500 THEN 15
  ELSE IF v > 1200 THEN 10
  ELSE IF v > 1000 THEN 5
  ELSE 0

HealthGrowthPoints(v) ==
  IF v > 200 THEN 20
  ELSE IF v > 100 THEN 15
  ELSE IF v > 50 THEN 10
  ELSE IF v > 0 THEN 5
  ELSE 0

\* A buggy variant: the points are always divided by five, so an absent
\* factor counts as a factor with no points.
HealthScoreOverFiveFactors(metrics) ==
  LET pm  == Get(metrics, "profit_margin")
      roe == Get(metrics, "roe")
      de  == Get(metrics, "debt_to_equity")
      cr  == Get(metrics, "current_ratio")
      rg  == Get(metrics, "revenue_growth")
      score == (IF IsNone(pm) THEN 0 ELSE HealthProfitMarginPoints(Val(pm)))
             + (IF IsNone(roe) THEN 0 ELSE HealthRoePoints(Val(roe)))
             + (IF IsNone(de) THEN 0 ELSE HealthDebtPoints(Val(de)))
             + (IF IsNone(cr) THEN 0 ELSE HealthCurrentRatioPoints(Val(cr)))
             + (IF IsNone(rg) THEN 0 ELSE HealthGrowthPoints(Val(rg)))
  IN IF score > 0 THEN (score * HealthUnit) \div 5 ELSE 50 * HealthUnit

get_financial_health_score(metrics) ==
  LET pm  == Get(metrics, "profit_margin")
      roe == Get(metrics, "roe")
      de  == Get(metrics, "debt_to_equity")
      cr  == Get(metrics, "current_ratio")
      rg  == Get(metrics, "revenue_growth")
      score == (IF IsNone(pm) THEN 0 ELSE HealthProfitMarginPoints(Val(pm)))
             + (IF IsNone(roe) THEN 0 ELSE HealthRoePoints(Val(roe)))
             + (IF IsNone(de) THEN 0 ELSE HealthDebtPoints(Val(de)))
             + (IF IsNone(cr) THEN 0 ELSE HealthCurrentRatioPoints(Val(cr)))
             + (IF IsNone(rg) THEN 0 ELSE HealthGrowthPoints(Val(rg)))
      factors == (IF IsNone(pm) THEN 0 ELSE 1) + (IF IsNone(roe) THEN 0 ELSE 1)
               + (IF IsNone(de) THEN 0 ELSE 1) + (IF IsNone(cr) THEN 0 ELSE 1)
               + (IF IsNone(rg) THEN 0 ELSE 1)
  IN IF factors > 0
       THEN Min2((score * HealthUnit) \div factors, 100 * HealthUnit)
     ELSE 50 * HealthUnit

\* -------------------------------------------------------- price series
\* hist_data is the sequence of its bars, oldest first; a bar is a record
\* of its columns (Close and Volume, and High and Low where they are
\* read).  iloc[-k] is the k-th bar from the end.

ILoc(hist_data, k) == hist_data[Len(hist_data) - k + 1]

RECURSIVE SumClose(_, _, _)
SumClose(hist_data, from, to) ==
  IF from > to THEN 0
  ELSE hist_data[to].Close + SumClose(hist_data, from, to - 1)

RECURSIVE SumVolume(_, _, _)
SumVolume(hist_data, from, to) ==
  IF from > to THEN 0
  ELSE hist_data[to].Volume + SumVolume(hist_data, from, to - 1)

\* ------------------------------------------------------ technical score

\* current_price > rolling(20).mean().iloc[-1], as 20 * price > window sum.
AboveMA20(hist_data) ==
  LET n == Len(hist_data)
  IN 20 * hist_data[n].Close > SumClose(hist_data, n - 19, n)

\* momentum = (current - past) / past against 0.05, 0.02, 0, -0.02.
TechMomentumPoints(current_price, past_price) ==
  LET d == current_price - past_price
  IN IF 20 * d > past_price THEN 25
     ELSE IF 50 * d > past_price THEN 20
     ELSE IF d > 0 THEN 15
     ELSE IF 50 * d > -past_price THEN 10
     ELSE 5

\* A variant: the volume thresholds are met by equality too.
VolumePointsStrict(hist_data) ==
  LET n == Len(hist_data)
      sum20 == SumVolume(hist_data, n - 19, n)
      sum5 == SumVolume(hist_data, n - 4, n)
  IN IF 10 * sum5 >= 3 * sum20 THEN 25
     ELSE IF 4 * sum5 >= sum20 THEN 20
     ELSE 15

\* recent = mean of the last 5 volumes, avg = mean of the last 20:
\* recent > avg * 1.2 is 10 * sum5 > 3 * sum20, recent > avg is 4 * sum5 > sum20.
VolumePoints(hist_data) ==
  LET n == Len(hist_data)
      sum20 == SumVolume(hist_data, n - 19, n)
      sum5 == SumVolume(hist_data, n - 4, n)
  IN IF 10 * sum5 > 3 * sum20 THEN 25
     ELSE IF 4 * sum5 > sum20 THEN 20
     ELSE 15

calculate_technical_score(hist_data) ==
  LET n == Len(hist_data)
  IN IF n < 50 THEN NeutralScore
     ELSE LET ma == IF n >= 20
                    THEN (IF AboveMA20(hist_data) THEN 25 ELSE 10) ELSE 0
              mo == IF n >= 10
                    THEN TechMomentumPoints(ILoc(hist_data, 1).Close,
                                            ILoc(hist_data, 10).Close)
                    ELSE 0
              vo == IF n >= 20 THEN VolumePoints(hist_data) ELSE 0
              factors == (IF n >= 20 THEN 2 ELSE 0) + (IF n >= 10 THEN 1 ELSE 0)
          IN Average(ma + mo + vo, factors)

\* ------------------------------------------------------- momentum score

\* momentum against 0.10, 0.05, 0.02, 0, -0.02, -0.05.
MomentumPoints(current_price, past_price) ==
  LET d == current_price - past_price
  IN IF 10 * d > past_price THEN 25
     ELSE IF 20 * d > past_price THEN 20
     ELSE IF 50 * d > past_price THEN 15
     ELSE IF d > 0 THEN 10
     ELSE IF 50 * d > -past_price THEN 8
     ELSE IF 20 * d > -past_price THEN 5
     ELSE 0

periods == << 5, 10, 20 >>

RECURSIVE MomentumScores(_, _)
\* The list momentum_scores after the first i periods.
MomentumScores(hist_data, i) ==
  IF i = 0 THEN << >>
  ELSE LET rest == MomentumScores(hist_data, i - 1)
           period == periods[i]
       IN IF Len(hist_data) >= period
          THEN Append(rest, MomentumPoints(ILoc(hist_data, 1).Close,
                                           ILoc(hist_data, period).Close))
          ELSE rest

RECURSIVE SumSeq(_)
SumSeq(s) == IF s = << >> THEN 0 ELSE Head(s) + SumSeq(Tail(s))

calculate_momentum_score(hist_data) ==
  IF Len(hist_data) < 30 THEN NeutralScore
  ELSE LET momentum_scores == MomentumScores(hist_data, Len(periods))
       IN Average(SumSeq(momentum_scores), Len(momentum_scores))

\* ------------------------------------------------------------ risk level

\* returns = Close.pct_change().dropna(): the i-th return, in thousandths
\* (rounded down; exact when a bar moves by a whole number of thousandths).
ReturnAt(hist_data, i) ==
  (1000 * (hist_data[i + 1].Close - hist_data[i].Close)) \div hist_data[i].Close

RECURSIVE SumReturnsBetween(_, _, _)
\* The sum of the returns from..to, halving the range.
SumReturnsBetween(hist_data, from, to) ==
  IF from > to THEN 0
  ELSE IF from = to THEN ReturnAt(hist_data, from)
  ELSE LET mid == (from + to) \div 2
       IN SumReturnsBetween(hist_data, from, mid)
          + SumReturnsBetween(hist_data, mid + 1, to)

RECURSIVE SumSquaredReturnsBetween(_, _, _)
SumSquaredReturnsBetween(hist_data, from, to) ==
  IF from > to THEN 0
  ELSE IF from = to
    THEN LET r == ReturnAt(hist_data, from) IN r * r
  ELSE LET mid == (from + to) \div 2
       IN SumSquaredReturnsBetween(hist_data, from, mid)
          + SumSquaredReturnsBetween(hist_data, mid + 1, to)

SumReturns(hist_data, m) == SumReturnsBetween(hist_data, 1, m)
SumSquaredReturns(hist_data, m) == SumSquaredReturnsBetween(hist_data, 1, m)

\* returns.std() * sqrt(252) > 0.4 (two points) or > 0.25 (one point).  With
\* m returns r (thousandths), the sample variance is X / (m (m - 1)) for
\* X = m * sum(r^2) - sum(r)^2, so volatility > t is 252 X > 10^6 t^2 m (m - 1):
\* 63 X > 40000 m (m - 1) for 0.4 and 63 X > 15625 m (m - 1) for 0.25.
VolatilityRisk(hist_data) ==
  LET m == Len(hist_data) - 1
      sr == SumReturns(hist_data, m)
      X == m * SumSquaredReturns(hist_data, m) - sr * sr
      M == m * (m - 1)
  IN IF X > 0 /\ (63 * X - 1) \div 40000 >= M THEN 2
     ELSE IF X > 0 /\ (63 * X - 1) \div 15625 >= M THEN 1
     ELSE 0

\* A variant: the volatility of a series of any length is weighed.
RiskLevelOfAnySeries(metrics, hist_data) ==
  LET beta == Get(metrics, "beta")
      de == Get(metrics, "debt_to_equity")
      risk_factors ==
          (IF IsNone(beta) THEN 0
           ELSE IF Val(beta) > 1500 THEN 2
           ELSE IF Val(beta) > 1200 THEN 1 ELSE 0)
        + (IF IsNone(de) THEN 0
           ELSE IF Val(de) > 2000 THEN 2
           ELSE IF Val(de) > 1000 THEN 1 ELSE 0)
        + (IF Len(hist_data) >= 3 THEN VolatilityRisk(hist_data) ELSE 0)
  IN IF risk_factors >= 4 THEN "High Risk"
     ELSE IF risk_factors >= 2 THEN "Medium Risk"
     ELSE "Low Risk"

calculate_risk_level(metrics, hist_data) ==
  LET beta == Get(metrics, "beta")
      de == Get(metrics, "debt_to_equity")
      risk_factors ==
          (IF IsNone(beta) THEN 0
           ELSE IF Val(beta) > 1500 THEN 2
           ELSE IF Val(beta) > 1200 THEN 1 ELSE 0)
        + (IF IsNone(de) THEN 0
           ELSE IF Val(de) > 2000 THEN 2
           ELSE IF Val(de) > 1000 THEN 1 ELSE 0)
        + (IF Len(hist_data) >= 30 THEN VolatilityRisk(hist_data) ELSE 0)
  IN IF risk_factors >= 4 THEN "High Risk"
     ELSE IF risk_factors >= 2 THEN "Medium Risk"
     ELSE "Low Risk"

\* ------------------------------------------------------------- reasoning

\* The sentences that " ".join(reasoning) concatenates, in order.
generate_reasoning(overall_score, financial_score, valuation_score, technical_score) ==
  << IF overall_score >= 75 * OverallUnit
       THEN "This stock shows strong performance across multiple analysis dimensions."
     ELSE IF overall_score >= 60 * OverallUnit
       THEN "This stock demonstrates solid fundamentals with positive indicators."
     ELSE IF overall_score >= 40 * OverallUnit
       THEN "This stock shows mixed signals with both positive and negative factors."
     ELSE "This stock shows concerning indicators across multiple analysis areas." >>
  \o (IF financial_score > 70 * ScoreUnit
        THEN << "The company demonstrates strong financial health with good profitability and manageable debt levels." >>
      ELSE IF financial_score < 40 * ScoreUnit
        THEN << "The company shows some financial health concerns that warrant attention." >>
      ELSE << >>)
  \o (IF valuation_score > 70 * ScoreUnit
        THEN << "The stock appears to be reasonably valued or potentially undervalued based on key metrics." >>
      ELSE IF valuation_score < 40 * ScoreUnit
        THEN << "The stock may be overvalued based on current price multiples." >>
      ELSE << >>)
  \o (IF technical_score > 70 * ScoreUnit
        THEN << "Technical indicators suggest positive price momentum and trading patterns." >>
      ELSE IF technical_score < 40 * ScoreUnit
        THEN << "Technical indicators suggest weakening price momentum." >>
      ELSE << >>)

\* ------------------------------------------------------------ key factors

\* f"{x:.1f}" of a value in thousandths, as a number of tenths (nearest;
\* the inputs of the model hold no value half-way between two tenths).
Fmt1(v) == (v + 50) \div 100

\* f"{x*100:.1f}%" of a value in thousandths: its tenths of a percent.
FmtPct1(v) == v

\* A factor is the pair of its template and the number it embeds (0 if none).
AllKeyFactors(metrics, financial_score) ==
  LET pe == Get(metrics, "pe_ratio")
      rg == Get(metrics, "revenue_growth")
      dy == Get(metrics, "dividend_yield")
      beta == Get(metrics, "beta")
      de == Get(metrics, "debt_to_equity")
  IN (IF financial_score > 70 * ScoreUnit
        THEN << << "Strong financial health with good profitability", 0 >> >>
      ELSE IF financial_score < 40 * ScoreUnit
        THEN << << "Weak financial metrics requiring attention", 0 >> >>
      ELSE << >>)
  \o (IF Truthy(pe) /\ Val(pe) < 15000
        THEN << << "Attractive P/E ratio of {:.1f}", Fmt1(Val(pe)) >> >>
      ELSE IF Truthy(pe) /\ Val(pe) > 25000
        THEN << << "High P/E ratio of {:.1f} suggests premium valuation",
                   Fmt1(Val(pe)) >> >>
      ELSE << >>)
  \o (IF Truthy(rg) /\ Val(rg) > 150
        THEN << << "Strong revenue growth of {:.1f}%", FmtPct1(Val(rg)) >> >>
      ELSE IF Truthy(rg) /\ Val(rg) < 0
        THEN << << "Declining revenue growth of {:.1f}%", FmtPct1(Val(rg)) >> >>
      ELSE << >>)
  \o (IF Truthy(dy) /\ Val(dy) > 40
        THEN << << "Attractive dividend yield of {:.1f}%", FmtPct1(Val(dy)) >> >>
      ELSE << >>)
  \o (IF Truthy(beta) /\ Val(beta) > 1500
        THEN << << "High volatility with beta of {:.1f}", Fmt1(Val(beta)) >> >>
      ELSE IF Truthy(beta) /\ Val(beta) < 800
        THEN << << "Low volatility with beta of {:.1f}", Fmt1(Val(beta)) >> >>
      ELSE << >>)
  \o (IF Truthy(de) /\ Val(de) > 2000
        THEN << << "High debt levels may pose financial risk", 0 >> >>
      ELSE IF Truthy(de) /\ Val(de) < 500
        THEN << << "Conservative debt management", 0 >> >>
      ELSE << >>)

\* factors[:k]
Prefix(s, k) == SubSeq(s, 1, Min2(k, Len(s)))

KeyFactorsUncapped(stock_info, metrics, financial_score) ==
  AllKeyFactors(metrics, financial_score)

\* A buggy variant: the last five candidates are kept (factors[-5:]).
KeyFactorsLastFive(stock_info, metrics, financial_score) ==
  LET all == AllKeyFactors(metrics, financial_score)
  IN SubSeq(all, Len(all) - Min2(5, Len(all)) + 1, Len(all))

generate_key_factors(stock_info, metrics, financial_score) ==
  Prefix(AllKeyFactors(metrics, financial_score), 5)

\* ------------------------------------------------------- recommendation

OverallScoreWithoutMomentum(weights, financial_score, valuation_score, technical_score, growth_score, momentum_score) ==
    financial_score * weights.financial_health
  + valuation_score * weights.valuation
  + technical_score * weights.technical
  + growth_score * weights.growth

\* overall_score = sum of score * weight; the scores are in 1/ScoreUnit and
\* the weights in hundredths, so the result is in 1/OverallUnit.
OverallScore(weights, financial_score, valuation_score, technical_score, growth_score, momentum_score) ==
    financial_score * weights.financial_health
  + valuation_score * weights.valuation
  + technical_score * weights.technical
  + growth_score * weights.growth
  + momentum_score * weights.momentum

ActionOfStrict(overall_score) ==
  IF overall_score > 75 * OverallUnit THEN "STRONG BUY"
  ELSE IF overall_score > 60 * OverallUnit THEN "BUY"
  ELSE IF overall_score > 40 * OverallUnit THEN "HOLD"
  ELSE IF overall_score > 25 * OverallUnit THEN "SELL"
  ELSE "STRONG SELL"

\* The if / elif chain on overall_score: the action.
ActionOf(overall_score) ==
  IF overall_score >= 75 * OverallUnit THEN "STRONG BUY"
  ELSE IF overall_score >= 60 * OverallUnit THEN "BUY"
  ELSE IF overall_score >= 40 * OverallUnit THEN "HOLD"
  ELSE IF overall_score >= 25 * OverallUnit THEN "SELL"
  ELSE "STRONG SELL"

ConfidenceOfUncapped(overall_score) ==
  IF overall_score >= 75 * OverallUnit THEN overall_score
  ELSE IF overall_score >= 60 * OverallUnit THEN overall_score
  ELSE IF overall_score >= 40 * OverallUnit
    THEN 100 * OverallUnit - Abs(overall_score - 50 * OverallUnit) * 2
  ELSE 100 * OverallUnit - overall_score

\* The same chain: the confidence, in 1/OverallUnit.
ConfidenceOf(overall_score) ==
  IF overall_score >= 75 * OverallUnit
    THEN Min2(overall_score, 95 * OverallUnit)
  ELSE IF overall_score >= 60 * OverallUnit THEN overall_score
  ELSE IF overall_score >= 40 * OverallUnit
    THEN 100 * OverallUnit - Abs(overall_score - 50 * OverallUnit) * 2
  ELSE IF overall_score >= 25 * OverallUnit
    THEN 100 * OverallUnit - overall_score
  ELSE Min2(100 * OverallUnit - overall_score, 95 * OverallUnit)

\* The record get_recommendation returns for an engine whose weights are
\* `weights`.
get_recommendation(weights, stock_info, hist_data, metrics) ==
  LET financial_score == calculate_financial_health_score(metrics)
      valuation_score == calculate_valuation_score(metrics)
      technical_score == calculate_technical_score(hist_data)
      growth_score == calculate_growth_score(metrics)
      momentum_score == calculate_momentum_score(hist_data)
      overall_score == OverallScore(weights, financial_score, valuation_score,
                                    technical_score, growth_score,
                                    momentum_score)
  IN [ action |-> ActionOf(overall_score),
       confidence |-> ConfidenceOf(overall_score),
       overall_score |-> overall_score,
       risk_level |-> calculate_risk_level(metrics, hist_data),
       reasoning |-> generate_reasoning(overall_score, financial_score,
                                        valuation_score, technical_score),
       factors |-> generate_key_factors(stock_info, metrics, financial_score),
       scores |-> [ financial_health |-> financial_score,
                    valuation |-> valuation_score,
                    technical |-> technical_score,
                    growth |-> growth_score,
                    momentum |-> momentum_score ] ]

\* ------------------------------------------------------------ the inputs
\* The callers' data: a metrics bundle, a price series and a stock_info
\* mapping.  Values are thousandths; each set holds a value inside every
\* bucket of the ladder that reads the field and the ladder's boundaries.

Opt(S) == { None } \cup { Some(v) : v \in S }

ProfitMarginValues == { -50, 0, 50, 120, 200, 250 }
RoeValues == { 0, 80, 150, 180, 250 }
DebtToEquityValues == { 0, 200, 400, 1000, 1500, 2500 }
CurrentRatioValues == { 900, 1000, 1300, 1800, 2500 }
PeRatioValues == { -5000, 0, 8000, 12000, 15000, 22000, 30000, 40000 }
PriceToBookValues == { 0, 800, 1200, 1800, 2500, 3500, 5000 }
PriceToSalesValues == { 500, 1500, 2500, 4000, 6000, 7000 }
RevenueGrowthValues == { -100, 0, 30, 80, 120, 200, 300 }
EarningsGrowthValues == { -200, 0, 50, 100, 150, 250, 400 }
DividendYieldValues == { 0, 20, 40, 50 }
BetaValues == { 0, 700, 1000, 1300, 1600 }

NoMetrics == [ k \in MetricKeys |-> None ]

\* Every bundle that sets only the fields the financial health score reads.
FinancialInputs ==
  { [ NoMetrics EXCEPT !["profit_margin"] = a, !["roe"] = b,
                       !["debt_to_equity"] = c, !["current_ratio"] = d ] :
      a \in Opt(ProfitMarginValues), b \in Opt(RoeValues),
      c \in Opt(DebtToEquityValues), d \in Opt(CurrentRatioValues) }

\* Every bundle that sets only the fields the valuation score reads.
ValuationInputs ==
  { [ NoMetrics EXCEPT !["pe_ratio"] = a, !["price_to_book"] = b,
                       !["price_to_sales"] = c ] :
      a \in Opt(PeRatioValues), b \in Opt(PriceToBookValues),
      c \in Opt(PriceToSalesValues) }

\* Every bundle that sets only the fields the growth score reads.
GrowthInputs ==
  { [ NoMetrics EXCEPT !["revenue_growth"] = a, !["earnings_growth"] = b ] :
      a \in Opt(RevenueGrowthValues), b \in Opt(EarningsGrowthValues) }

\* Bundles over the fields the key factors and the risk level read.
FactorInputs ==
  { [ NoMetrics EXCEPT !["pe_ratio"] = a, !["revenue_growth"] = b,
                       !["dividend_yield"] = c, !["beta"] = d,
                       !["debt_to_equity"] = e ] :
      a \in Opt({ 0, 12000, 40000 }), b \in Opt({ -100, 300 }),
      c \in Opt(DividendYieldValues), d \in Opt(BetaValues),
      e \in Opt({ 0, 200, 2500 }) }

\* Bundles that mix the groups: one profile of each group at a time.
MixedInputs ==
  { [ NoMetrics EXCEPT !["profit_margin"] = f[1], !["roe"] = f[2],
                       !["debt_to_equity"] = f[3], !["current_ratio"] = f[4],
                       !["pe_ratio"] = v[1], !["price_to_book"] = v[2],
                       !["price_to_sales"] = v[3],
                       !["revenue_growth"] = g[1], !["earnings_growth"] = g[2],
                       !["dividend_yield"] = x[1], !["beta"] = x[2] ] :
      f \in { << None, None, None, None >>,
              << Some(250), Some(250), Some(200), Some(2500) >>,
              << Some(-50), Some(0), Some(2500), Some(900) >> },
      v \in { << None, None, None >>,
              << Some(8000), Some(800), Some(500) >>,
              << Some(40000), Some(5000), Some(7000) >> },
      g \in { << None, None >>, << Some(300), None >>,
              << Some(-100), Some(0) >> },
      x \in { << None, None >>, << Some(50), Some(1600) >> } }

MetricsInputs ==
  FinancialInputs \cup ValuationInputs \cup GrowthInputs \cup FactorInputs
  \cup MixedInputs

\* stock_info: the provider's mapping; the engine passes it on and reads
\* no key of it.
StockInfos == { [ symbol |-> "SHOP.TO", currency |-> "CAD" ] }

\* A close of 1000.000 and a volume of 1000 shares, in ticks.
BaseClose == 1000 * 1000
BaseVolume == 10 * 100

\* The longest series of the model (the 300-bar scenario).
MaxBars == 300

RECURSIVE Extend(_, _, _)
\* `closes` followed by k more, each `rate` thousandths from the one before
\* (to the tick).
Extend(closes, k, rate) ==
  IF k = 0 THEN closes
  ELSE LET before == Extend(closes, k - 1, rate)
           last == before[Len(before)]
       IN Append(before, last + (last * rate) \div 1000)

RECURSIVE TrendCloses(_, _)
\* n closes from BaseClose that move by `rate` thousandths per bar, built
\* in runs of at most 32 bars.
TrendCloses(n, rate) ==
  IF n = 0 THEN << >>
  ELSE IF n <= 32 THEN Extend(<< BaseClose >>, n - 1, rate)
  ELSE LET before == TrendCloses(n - 32, rate)
       IN IF Len(before) = n - 32 THEN Extend(before, 32, rate) ELSE << >>

\* n closes at BaseClose, the last k of them moved by p thousandths.
StepCloses(n, k, p) ==
  [ i \in 1..n |-> IF i > n - k THEN BaseClose + (BaseClose \div 1000) * p
                   ELSE BaseClose ]

\* n volumes at BaseVolume, the last five scaled by q tenths.
Volumes(n, q) ==
  [ i \in 1..n |-> IF i > n - 5 THEN (BaseVolume \div 10) * q ELSE BaseVolume ]

Bars(closes, volumes) ==
  [ i \in 1..Len(closes) |-> [ Close |-> closes[i], Volume |-> volumes[i] ] ]

\* The lengths around the 30-bar, 50-bar and 252-bar thresholds of the code.
ShortLengths == { 30, 50 }

RecentMoves == { -150, -100, -50, -30, -20, -10, 10, 20, 30, 50, 70, 100, 150 }
MoveAges == { 1, 7, 15 }
VolumeScales == { 5, 10, 11, 20 }

HistInputs ==
  { Bars(TrendCloses(n, 0), Volumes(n, 10)) : n \in { 0, 10, 29 } }
  \cup { Bars(TrendCloses(n, r), Volumes(n, 10)) :
           n \in { 30, 49, 252 }, r \in { -1, 0, 1 } }
  \cup { Bars(TrendCloses(n, r), Volumes(n, q)) :
           n \in { 50, MaxBars }, r \in { -1, 0, 1 }, q \in VolumeScales }
  \cup { Bars(StepCloses(n, k, p), Volumes(n, 10)) :
           n \in ShortLengths, k \in MoveAges, p \in RecentMoves }
  \cup { Bars(StepCloses(50, 1, p), Volumes(50, 20)) : p \in RecentMoves }

\* Every metrics bundle with no price series, and the mixed bundles with
\* every price series.
Inputs ==
  (MetricsInputs \X { << >> }) \cup (MixedInputs \X HistInputs)

\* ------------------------------------ FinancialMetrics.calculate_metrics
\* stock_info is the provider's mapping: a key may be missing, or map to
\* None, or to a number.  A bar of the series has the columns Close, High,
\* Low and Volume.  The bundle calculate_metrics returns is a function
\* from its keys to their values.

\* stock_info.get(key)
InfoGet(stock_info, key) ==
  IF key \in DOMAIN stock_info THEN stock_info[key] ELSE None

\* metrics[k] = stock_info.get(InfoKeyOf[k]), lines 15-42.
InfoKeyOf ==
  [ pe_ratio |-> "trailingPE", forward_pe |-> "forwardPE",
    price_to_book |-> "priceToBook",
    price_to_sales |-> "priceToSalesTrailing12Months",
    profit_margin |-> "profitMargins", operating_margin |-> "operatingMargins",
    gross_margin |-> "grossMargins", roe |-> "returnOnEquity",
    roa |-> "returnOnAssets", debt_to_equity |-> "debtToEquity",
    current_ratio |-> "currentRatio", quick_ratio |-> "quickRatio",
    revenue_growth |-> "revenueGrowth", earnings_growth |-> "earningsGrowth",
    dividend_yield |-> "dividendYield", payout_ratio |-> "payoutRatio",
    beta |-> "beta", market_cap |-> "marketCap" ]

\* The returns are all zero: every close equals the one before.
ConstantCloses(hist_data) ==
  \A i \in 1..(Len(hist_data) - 1) :
    hist_data[i + 1].Close = hist_data[i].Close

\* returns.std() * sqrt(252): the variance of the returns times 252 as the
\* fraction << numerator, denominator >> in millionths (the returns being
\* thousandths, rounded down), and whether the volatility is exactly zero.
Volatility(hist_data) ==
  LET m == Len(hist_data) - 1
      sr == SumReturns(hist_data, m)
      X == m * SumSquaredReturns(hist_data, m) - sr * sr
  IN [ squared |-> << 252 * X, m * (m - 1) >>,
       zero |-> ConstantCloses(hist_data) ]

\* excess_returns / volatility, excess_returns = returns.mean() * 252 - 0.02
\* being the fraction << 252 * sum - 20 * m, m >> in thousandths.  A float
\* division by a zero volatility yields an infinity or nan; constant
\* closes have a mean return of 0 and a negative excess return.
SharpeRatio(hist_data) ==
  LET m == Len(hist_data) - 1
      excess == 252 * SumReturns(hist_data, m) - 20 * m
      volatility == Volatility(hist_data)
  IN IF volatility.zero
       THEN (IF excess > 0 THEN "inf" ELSE IF excess < 0 THEN "-inf" ELSE "nan")
     ELSE [ excess |-> << excess, m >>, volatility |-> volatility ]

\* One more close of the cumulative-return curve: st is the running
\* maximum (peak) and the least drawdown so far as the fraction num / den.
\* The curve is close / first close, so the drawdown (cum - peak) / peak is
\* (close - peak close) / peak close.
DrawdownStep(st, close) ==
  LET peak == IF close > st.peak THEN close ELSE st.peak
      d == close - peak
  IN IF d * st.den < st.num * peak
       THEN [ peak |-> peak, num |-> d, den |-> peak ]
     ELSE [ peak |-> peak, num |-> st.num, den |-> st.den ]

RECURSIVE DrawdownScan(_, _, _, _)
\* DrawdownStep over the closes from..to in order, halving the range.
DrawdownScan(hist_data, from, to, st) ==
  IF from > to THEN st
  ELSE IF from = to THEN DrawdownStep(st, hist_data[from].Close)
  ELSE LET mid == (from + to) \div 2
           left == DrawdownScan(hist_data, from, mid, st)
       IN IF left.peak > 0 THEN DrawdownScan(hist_data, mid + 1, to, left)
          ELSE left

\* A buggy variant: the decline is measured from the first close of the
\* series instead of the running maximum.
MaxDrawdownFromFirstClose(hist_data) ==
  LET first == hist_data[1].Close
      low == CHOOSE c \in { hist_data[i].Close : i \in 2..Len(hist_data) } :
               \A i \in 2..Len(hist_data) : c <= hist_data[i].Close
  IN << low - first, first >>

\* drawdown.min(), lines 68-72, as the fraction << num, den >>: the curve
\* starts at the second close, the first return.
MaxDrawdown(hist_data) ==
  LET second == hist_data[2].Close
      st == DrawdownScan(hist_data, 3, Len(hist_data),
                         [ peak |-> second, num |-> 0, den |-> second ])
  IN << st.num, st.den >>

\* hist_data[column].tail(252).max() and .min()
TailMax(hist_data, column) ==
  LET n == Len(hist_data)
      tail == { hist_data[i][column] : i \in (n - 251)..n }
  IN CHOOSE v \in tail : \A w \in tail : w <= v

TailMin(hist_data, column) ==
  LET n == Len(hist_data)
      tail == { hist_data[i][column] : i \in (n - 251)..n }
  IN CHOOSE v \in tail : \A w \in tail : v <= w

\* Lines 57-84: the statistics of a series of at least 252 bars.
PriceStatistics(hist_data) ==
  LET current_price == ILoc(hist_data, 1).Close
      week_52_high == TailMax(hist_data, "High")
      week_52_low == TailMin(hist_data, "Low")
  IN ("volatility" :> Volatility(hist_data))
     @@ ("sharpe_ratio" :> SharpeRatio(hist_data))
     @@ ("max_drawdown" :> MaxDrawdown(hist_data))
     @@ ("52_week_high" :> week_52_high)
     @@ ("52_week_low" :> week_52_low)
     @@ ("price_vs_52w_high" :> << current_price - week_52_high, week_52_high >>)
     @@ ("price_vs_52w_low" :> << current_price - week_52_low, week_52_low >>)

\* A buggy variant: a series of exactly 252 bars is turned away.
PriceMetricsAfterAYear(hist_data) ==
  IF Len(hist_data) <= 252 THEN << >> ELSE PriceStatistics(hist_data)

\* The empty dict is the function with no key.
calculate_price_metrics(hist_data) ==
  IF Len(hist_data) < 252 THEN << >> ELSE PriceStatistics(hist_data)

\* metrics.update(price_metrics) lets the price metrics win a shared key.
calculate_metrics(stock_info, hist_data) ==
  LET passthrough ==
        [ k \in DOMAIN InfoKeyOf |-> InfoGet(stock_info, InfoKeyOf[k]) ]
  IN IF Len(hist_data) # 0
       THEN calculate_price_metrics(hist_data) @@ passthrough
     ELSE passthrough

\* ------------------------------------------------------- StockAnalyzer
\* src/utils/stock_analyzer.py.  A quotient the code computes in floating
\* point is the fraction << numerator, denominator >>; 0/0 is nan.

Nan == << 0, 0 >>

RECURSIVE SumGains(_, _, _, _)
\* The sum over the bars from..to of delta where sign * delta > 0, delta
\* being the close minus the close before (nothing for the first bar).
SumGains(df, from, to, sign) ==
  IF from > to THEN 0
  ELSE LET delta == IF to = 1 THEN 0 ELSE df[to].Close - df[to - 1].Close
       IN (IF sign * delta > 0 THEN sign * delta ELSE 0)
          + SumGains(df, from, to - 1, sign)

\* calculate_rsi(df).iloc[-1]: with gain and loss the means of the last 14
\* rises and falls, rs = gain / loss and rsi = 100 - 100 / (1 + rs), that is
\* 100 gain / (gain + loss); a zero loss gives rs = inf and rsi = 100, or
\* rs = nan and rsi = nan when the gain is zero too.
calculate_rsi(df) ==
  LET n == Len(df)
      gain == SumGains(df, n - 13, n, 1)
      loss == SumGains(df, n - 13, n, -1)
  IN IF n < 14 THEN None
     ELSE IF loss = 0 /\ gain = 0 THEN Some(Nan)
     ELSE Some(<< 100 * gain, gain + loss >>)

\* A buggy variant: a price level with the short average counts as above
\* it, and a short average level with the long one counts as under it.
TrendWithTies(df) ==
  LET n == Len(df)
      sum20 == SumClose(df, n - 19, n)
      sum50 == SumClose(df, n - 49, n)
      current_price == df[n].Close
      above == 20 * current_price >= sum20
      below == 20 * current_price < sum20
      short_over_long == 5 * sum20 > 2 * sum50
      short_under_long == 5 * sum20 <= 2 * sum50
  IN IF n < 50 THEN "Insufficient data"
     ELSE IF above /\ short_over_long THEN "Strong Uptrend"
     ELSE IF above /\ short_under_long THEN "Weak Uptrend"
     ELSE IF below /\ short_under_long THEN "Strong Downtrend"
     ELSE IF below /\ short_over_long THEN "Weak Downtrend"
     ELSE "Sideways"

analyze_trend(df) ==
  LET n == Len(df)
      sum20 == SumClose(df, n - 19, n)
      sum50 == SumClose(df, n - 49, n)
      current_price == df[n].Close
      above == 20 * current_price > sum20
      below == 20 * current_price < sum20
      short_over_long == 5 * sum20 > 2 * sum50
      short_under_long == 5 * sum20 < 2 * sum50
  IN IF n < 50 THEN "Insufficient data"
     ELSE IF above /\ short_over_long THEN "Strong Uptrend"
     ELSE IF above /\ short_under_long THEN "Weak Uptrend"
     ELSE IF below /\ short_under_long THEN "Strong Downtrend"
     ELSE IF below /\ short_over_long THEN "Weak Downtrend"
     ELSE "Sideways"

\* ((current_price - past_price) / past_price) * 100, past_price being
\* iloc[-period].
calculate_price_momentum(df, period) ==
  IF Len(df) < period THEN None
  ELSE LET current_price == ILoc(df, 1).Close
           past_price == ILoc(df, period).Close
       IN Some(<< 100 * (current_price - past_price), past_price >>)

\* volume_ratio = mean of the last 5 volumes / mean of the last 20, against
\* 1.5, 1.2 and 0.8: the ratio is 4 * sum5 / sum20.
get_volume_analysis(df) ==
  LET n == Len(df)
      sum20 == SumVolume(df, n - 19, n)
      sum5 == SumVolume(df, n - 4, n)
  IN IF n < 20 THEN "Insufficient data"
     ELSE IF 8 * sum5 > 3 * sum20 THEN "High Volume"
     ELSE IF 10 * sum5 > 3 * sum20 THEN "Above Average Volume"
     ELSE IF 5 * sum5 < sum20 THEN "Low Volume"
     ELSE "Average Volume"

\* Lines 142-179: the summary of a series of at least 50 bars.  A float is
\* truthy unless it is zero; nan is truthy and compares false.
FullTechnicalSummary(df) ==
  LET n == Len(df)
      sum20 == SumClose(df, n - 19, n)
      sum50 == SumClose(df, n - 49, n)
      current_price == df[n].Close
      rsi == calculate_rsi(df)
      rsi_current == rsi
      momentum == calculate_price_momentum(df, 10)
      rsi_truthy == rsi_current # None /\ (Val(rsi_current) = Nan
                                           \/ Val(rsi_current)[1] # 0)
      rsi_number == rsi_truthy /\ Val(rsi_current) # Nan
      momentum_truthy == momentum # None /\ Val(momentum)[1] # 0
  IN [ trend |-> analyze_trend(df),
       momentum |-> momentum,
       volume |-> get_volume_analysis(df),
       rsi |-> rsi_current,
       signals |->
         (IF rsi_number
               /\ Val(rsi_current)[1] > 70 * Val(rsi_current)[2]
            THEN << "RSI indicates overbought conditions" >>
          ELSE IF rsi_number
               /\ Val(rsi_current)[1] < 30 * Val(rsi_current)[2]
            THEN << "RSI indicates oversold conditions" >>
          ELSE << >>)
         \o (IF 20 * current_price > sum20 /\ 5 * sum20 > 2 * sum50
               THEN << "Price above both short and long-term moving averages" >>
             ELSE IF 20 * current_price < sum20 /\ 5 * sum20 < 2 * sum50
               THEN << "Price below both short and long-term moving averages" >>
             ELSE << >>)
         \o (IF momentum_truthy /\ Val(momentum)[1] > 5 * Val(momentum)[2]
               THEN << "Strong positive momentum" >>
             ELSE IF momentum_truthy /\ Val(momentum)[1] < -5 * Val(momentum)[2]
               THEN << "Strong negative momentum" >>
             ELSE << >>) ]

\* A buggy variant: a short series still gets its volume regime.
TechnicalSummaryWithVolume(df) ==
  IF Len(df) < 50
    THEN [ trend |-> "Insufficient data", momentum |-> None,
           volume |-> get_volume_analysis(df), signals |-> << >> ]
  ELSE FullTechnicalSummary(df)

\* A buggy variant: the signal of a price above both averages is raised
\* as soon as the price is above the short one.
SummarySignalsOnShortAverage(df) ==
  IF Len(df) < 50
    THEN [ trend |-> "Insufficient data", momentum |-> None,
           volume |-> "Insufficient data", signals |-> << >> ]
  ELSE LET n == Len(df)
           text == "Price above both short and long-term moving averages"
           raised == \E i \in DOMAIN FullTechnicalSummary(df).signals :
                       FullTechnicalSummary(df).signals[i] = text
       IN [ FullTechnicalSummary(df) EXCEPT
              !.signals = IF 20 * df[n].Close > SumClose(df, n - 19, n)
                             /\ ~raised
                            THEN Append(@, text) ELSE @ ]

get_technical_summary(df) ==
  IF Len(df) < 50
    THEN [ trend |-> "Insufficient data", momentum |-> None,
           volume |-> "Insufficient data", signals |-> << >> ]
  ELSE FullTechnicalSummary(df)

\* ------------------------------------------------- CurrencyConverter
\* currency_converter.py.  The clock counts ticks of 30 minutes; a rate is
\* held in ten-thousandths.  The converter object is the record of its two
\* fields that change, cache (cache_key -> rate) and last_update (None or a
\* time).
\* timedelta(hours=1), in ticks.
cache_duration == 2

\* __init__
CurrencyConverter == [ cache |-> << >>, last_update |-> None ]

\* f"{from_currency}_{to_currency}".
cache_key(from_currency, to_currency) == << from_currency, "_", to_currency >>

\* What a rate API answers to one request: a document that holds the rate
\* asked for, a document that does not, or an error (timeout, HTTP status,
\* malformed JSON).
Responses == { "rate", "no rate", "error" }

\* The rate a document holds: the market's rate of the pair at the time
\* of the request, which differs from one time to the next and, in the
\* last digit, between the primary (0) and the alternative (1) API.
Quote(from_currency, to_currency, current_time, api) ==
  LET market == IF from_currency = "USD" /\ to_currency = "CAD" THEN 13600
                ELSE IF from_currency = "CAD" /\ to_currency = "USD" THEN 7300
                ELSE IF from_currency = "USD" THEN 9200
                ELSE IF to_currency = "USD" THEN 10800
                ELSE IF from_currency = "CAD" THEN 6800
                ELSE 14700
  IN market + 10 * current_time + api

\* How a function ends: it returns a value or it raises.
Returns(v) == [ raised |-> FALSE, value |-> v ]
Raises == [ raised |-> TRUE ]

\* Lines 57-73: the rate of the alternative document, else ValueError.
_fetch_alternative_rate(from_currency, to_currency, current_time, alternative) ==
  IF alternative = "rate"
    THEN Returns(Quote(from_currency, to_currency, current_time, 1))
  ELSE Raises

\* Lines 40-55: the rate of the primary document; anything raised on the
\* way hands over to the alternative API.
_fetch_exchange_rate(from_currency, to_currency, current_time, primary, alternative) ==
  IF primary = "rate"
    THEN Returns(Quote(from_currency, to_currency, current_time, 0))
  ELSE _fetch_alternative_rate(from_currency, to_currency, current_time,
                               alternative)

\* Lines 75-86.
_get_fallback_rate(from_currency, to_currency) ==
  LET rate_key == cache_key(from_currency, to_currency)
  IN IF rate_key = << "USD", "_", "CAD" >> THEN 13500
     ELSE IF rate_key = << "CAD", "_", "USD" >> THEN 7400
     ELSE IF rate_key = << "USD", "_", "USD" >> THEN 10000
     ELSE IF rate_key = << "CAD", "_", "CAD" >> THEN 10000
     ELSE 10000

\* Lines 116-121.
is_cache_valid(self, current_time) ==
  IF self.last_update = None THEN FALSE
  ELSE current_time - Val(self.last_update) < cache_duration

\* A buggy variant: a rate that could not be fetched is cached as well.
ExchangeRateCachingFallback(self, from_currency, to_currency, current_time, primary, alternative) ==
  LET key == cache_key(from_currency, to_currency)
      fetched == _fetch_exchange_rate(from_currency, to_currency, current_time,
                                      primary, alternative)
      rate == IF fetched.raised
                THEN _get_fallback_rate(from_currency, to_currency)
              ELSE fetched.value
  IN IF from_currency = to_currency
       THEN [ self |-> self, raised |-> FALSE, value |-> 10000,
              served |-> "same currency" ]
     ELSE IF key \in DOMAIN self.cache /\ is_cache_valid(self, current_time)
       THEN [ self |-> self, raised |-> FALSE, value |-> self.cache[key],
              served |-> "cache" ]
     ELSE [ self |-> [ cache |-> [ k \in DOMAIN self.cache \cup { key } |->
                                     IF k = key THEN rate ELSE self.cache[k] ],
                       last_update |-> Some(current_time) ],
            raised |-> FALSE, value |-> rate,
            served |-> IF fetched.raised THEN "fallback" ELSE "fetch" ]

\* Lines 13-38.  The record returned holds the converter after the call,
\* the value returned, whether the call raised, and which of the four
\* return statements served it.
get_exchange_rate(self, from_currency, to_currency, current_time, primary, alternative) ==
  LET key == cache_key(from_currency, to_currency)
      fetched == _fetch_exchange_rate(from_currency, to_currency, current_time,
                                      primary, alternative)
  IN IF from_currency = to_currency
       THEN [ self |-> self, raised |-> FALSE, value |-> 10000,
              served |-> "same currency" ]
     ELSE IF /\ key \in DOMAIN self.cache
             /\ self.last_update # None
             /\ current_time - Val(self.last_update) < cache_duration
       THEN [ self |-> self, raised |-> FALSE, value |-> self.cache[key],
              served |-> "cache" ]
     ELSE IF fetched.raised
       THEN [ self |-> self, raised |-> FALSE,
              value |-> _get_fallback_rate(from_currency, to_currency),
              served |-> "fallback" ]
     ELSE [ self |-> [ cache |-> [ k \in DOMAIN self.cache \cup { key } |->
                                     IF k = key THEN fetched.value
                                     ELSE self.cache[k] ],
                       last_update |-> Some(current_time) ],
            raised |-> FALSE, value |-> fetched.value, served |-> "fetch" ]

\* ------------------------------------------------------------ the state

Engines == { "engine1", "engine2" }

\* How many calls one behaviour makes.
MaxCalls == 2

\* The grid of overall scores the decision chain is applied to, in
\* 1/OverallUnit: every ProbeStep, and each threshold with its neighbours.
ProbeStep == 300

OverallProbes ==
  ( { k * ProbeStep : k \in 0..((100 * OverallUnit) \div ProbeStep) }
    \cup { t * OverallUnit + d : t \in { 25, 40, 60, 75, 95, 100 },
                                 d \in { -1, 0, 1 } } )
  \cap 0..(100 * OverallUnit)

VARIABLES
  weights,     \* engine -> self.weights
  stock_info,  \* the callers' stock_info
  hist_data,   \* the callers' price series
  metrics,     \* the callers' metrics bundle
  ret,         \* engine -> << >> or << the record its last call returned >>
  ncalls,      \* calls made so far
  probe,       \* an overall score handed to the decision chain
  verdict,     \* << >> or << the action and confidence decided for probe >>
  result,      \* << >> or << [call, value]: a function applied on its own >>
  converter,   \* the CurrencyConverter: its cache and last_update
  now          \* datetime.now(), in ticks

vars ==
  << weights, stock_info, hist_data, metrics, ret, ncalls, probe, verdict,
     result, converter, now >>

inputs == << stock_info, hist_data, metrics >>

\* RecommendationEngine(): the engines are constructed; the callers hold
\* their data.
Init ==
  /\ weights = [ e \in Engines |-> InitWeights ]
  /\ stock_info \in StockInfos
  /\ \E in \in Inputs : metrics = in[1] /\ hist_data = in[2]
  /\ ret = [ e \in Engines |-> << >> ]
  /\ ncalls = 0
  /\ probe = 0
  /\ verdict = << >>
  /\ result = << >>
  /\ converter = CurrencyConverter
  /\ now = 0

\* A buggy variant: the call renormalises the weights it used in place.
GetRecommendationAdapting(e) ==
  /\ ncalls < MaxCalls
  /\ ret' = [ ret EXCEPT ![e] =
                << get_recommendation(weights[e], stock_info, hist_data,
                                      metrics) >> ]
  /\ weights' = [ weights EXCEPT ![e].momentum = 0,
                                 ![e].technical = @ + weights[e].momentum ]
  /\ ncalls' = ncalls + 1
  /\ UNCHANGED << stock_info, hist_data, metrics, probe, verdict, result,
                  converter, now >>

\* engine e.get_recommendation(stock_info, hist_data, metrics)
GetRecommendation(e) ==
  /\ ncalls < MaxCalls
  /\ ret' = [ ret EXCEPT ![e] =
                << get_recommendation(weights[e], stock_info, hist_data,
                                      metrics) >> ]
  /\ ncalls' = ncalls + 1
  /\ UNCHANGED << weights, stock_info, hist_data, metrics, probe, verdict,
                  result,
                  converter, now >>

Next == \E e \in Engines : GetRecommendation(e)

Spec == Init /\ [][Next]_vars

\* ------------------------------------------- the decision chain on its own

InitDecide ==
  /\ weights = [ e \in Engines |-> InitWeights ]
  /\ stock_info \in StockInfos
  /\ metrics = NoMetrics
  /\ hist_data = << >>
  /\ ret = [ e \in Engines |-> << >> ]
  /\ ncalls = 0
  /\ probe \in OverallProbes
  /\ verdict = << >>
  /\ result = << >>
  /\ converter = CurrencyConverter
  /\ now = 0

\* Lines 35-50 of get_recommendation applied to overall_score = probe.
Decide ==
  /\ verdict = << >>
  /\ verdict' = << [ action |-> ActionOf(probe),
                     confidence |-> ConfidenceOf(probe) ] >>
  /\ UNCHANGED << weights, stock_info, hist_data, metrics, ret, ncalls, probe,
                  result,
                  converter, now >>

NextDecide == Decide

SpecDecide == InitDecide /\ [][NextDecide]_vars

\* ------------------------------------------------------------ properties

ScoreNames ==
  { "financial_health", "valuation", "technical", "growth", "momentum" }

Actions == { "STRONG BUY", "BUY", "HOLD", "SELL", "STRONG SELL" }

\* Whether engine e has returned, and the record it returned.
Returned(e) == ret[e] # << >>
Rec(e) == ret[e][1]

MinScore(scores) ==
  CHOOSE x \in { scores[k] : k \in ScoreNames } :
    \A k \in ScoreNames : x <= scores[k]
MaxScore(scores) ==
  CHOOSE x \in { scores[k] : k \in ScoreNames } :
    \A k \in ScoreNames : x >= scores[k]

\* C1: the action is a total function of overall_score whose thresholds
\* partition [0,100]: >= 75 STRONG BUY, [60,75) BUY, [40,60) HOLD,
\* [25,40) SELL, < 25 STRONG SELL.
C1_ActionPartition ==
  verdict # << >> =>
    LET a == verdict[1].action
        o == probe
    IN /\ a \in Actions
       /\ (a = "STRONG BUY") <=> (o >= 75 * OverallUnit)
       /\ (a = "BUY") <=> (60 * OverallUnit <= o /\ o < 75 * OverallUnit)
       /\ (a = "HOLD") <=> (40 * OverallUnit <= o /\ o < 60 * OverallUnit)
       /\ (a = "SELL") <=> (25 * OverallUnit <= o /\ o < 40 * OverallUnit)
       /\ (a = "STRONG SELL") <=> (o < 25 * OverallUnit)

\* The decision chain has decided an overall score of exactly 75.
C1_Witness ==
  /\ verdict # << >>
  /\ probe = 75 * OverallUnit
  /\ verdict[1].action = "STRONG BUY"

\* C2: each of the five sub-scores of a returned record lies in [0,100].
C2_SubScoresInRange ==
  \A e \in Engines : Returned(e) =>
    \A k \in ScoreNames :
      0 <= Rec(e).scores[k] /\ Rec(e).scores[k] <= 100 * ScoreUnit

\* A call has returned for an empty bundle and an empty price series.
C2_Witness ==
  \E e \in Engines :
    Returned(e) /\ metrics = NoMetrics /\ hist_data = << >>

\* C3: a sub-score is exactly 50 when its inputs are absent: no health,
\* valuation or growth field present, fewer than 50 bars (technical),
\* fewer than 30 bars (momentum).
C3_NeutralWhenAbsent ==
  \A e \in Engines : Returned(e) =>
    LET sc == Rec(e).scores
        absent(keys) == \A k \in keys : IsNone(metrics[k])
    IN /\ absent({ "profit_margin", "roe", "debt_to_equity", "current_ratio" })
            => sc.financial_health = 50 * ScoreUnit
       /\ absent({ "pe_ratio", "price_to_book", "price_to_sales" })
            => sc.valuation = 50 * ScoreUnit
       /\ absent({ "revenue_growth", "earnings_growth" })
            => sc.growth = 50 * ScoreUnit
       /\ Len(hist_data) < 50 => sc.technical = 50 * ScoreUnit
       /\ Len(hist_data) < 30 => sc.momentum = 50 * ScoreUnit

\* A call has returned for no fundamentals and a series of 49 bars: the
\* technical score took its default and the momentum score did not.
C3_Witness ==
  \E e \in Engines :
    /\ Returned(e)
    /\ metrics = NoMetrics
    /\ Len(hist_data) = 49
    /\ Rec(e).scores.technical = 50 * ScoreUnit
    /\ Rec(e).scores.momentum # 50 * ScoreUnit

\* C4: the weights sum to 1 and overall_score is the weighted sum of the
\* sub-scores, hence between the least and the greatest of them.
C4_ConvexCombination ==
  \A e \in Engines :
    LET w == weights[e]
    IN /\ w.financial_health + w.valuation + w.technical + w.growth
            + w.momentum = 100
       /\ Returned(e) =>
            LET sc == Rec(e).scores
                o == Rec(e).overall_score
            IN /\ 100 * MinScore(sc) <= o
               /\ o <= 100 * MaxScore(sc)

\* A returned record whose overall score lies strictly between its least
\* and its greatest sub-score.
C4_Witness ==
  \E e \in Engines :
    /\ Returned(e)
    /\ 100 * MinScore(Rec(e).scores) < Rec(e).overall_score
    /\ Rec(e).overall_score < 100 * MaxScore(Rec(e).scores)

\* C5: overall_score and confidence lie in [0,100], and confidence is
\* min(overall,95) for STRONG BUY, overall for BUY, 100 - 2|overall - 50|
\* for HOLD, 100 - overall for SELL, min(100 - overall, 95) for STRONG SELL.
C5_ConfidenceInRange ==
  \A e \in Engines : Returned(e) =>
    LET o == Rec(e).overall_score
        c == Rec(e).confidence
        a == Rec(e).action
        full == 100 * OverallUnit
    IN /\ 0 <= o /\ o <= full
       /\ 0 <= c /\ c <= full
       /\ a = "STRONG BUY" => c = Min2(o, 95 * OverallUnit)
       /\ a = "BUY" => c = o
       /\ a = "HOLD" => c = full - 2 * Abs(o - 50 * OverallUnit)
       /\ a = "SELL" => c = full - o
       /\ a = "STRONG SELL" => c = Min2(full - o, 95 * OverallUnit)

\* A STRONG SELL whose confidence is capped at 95.
C5_Witness ==
  \E e \in Engines :
    /\ Returned(e)
    /\ Rec(e).action = "STRONG SELL"
    /\ Rec(e).overall_score < 5 * OverallUnit
    /\ Rec(e).confidence = 95 * OverallUnit

\* Constant close and constant volume.
IsFlat(h) ==
  \A i \in 1..Len(h) : h[i].Close = h[1].Close /\ h[i].Volume = h[1].Volume

\* C6: 300 bars of constant close and volume and no fundamentals give five
\* sub-scores of 50, an overall score of 50 and the action HOLD.
C6_FlatSeriesIsNeutral ==
  \A e \in Engines :
    (Returned(e) /\ metrics = NoMetrics /\ Len(hist_data) = 300
       /\ IsFlat(hist_data))
    => /\ \A k \in ScoreNames : Rec(e).scores[k] = 50 * ScoreUnit
       /\ Rec(e).overall_score = 50 * OverallUnit
       /\ Rec(e).action = "HOLD"

TopBucketMetrics ==
  [ NoMetrics EXCEPT !["debt_to_equity"] = Some(200),
                     !["current_ratio"] = Some(2500),
                     !["profit_margin"] = Some(250),
                     !["roe"] = Some(250),
                     !["revenue_growth"] = Some(300) ]

\* C7: with every health factor in its top bucket and no price series the
\* financial health score (of the engine, or the health index) is 100 and
\* the technical score is 50.
C7_TopBucketsScore100 ==
  \A e \in Engines :
    (Returned(e) /\ metrics = TopBucketMetrics /\ hist_data = << >>)
    => /\ \/ Rec(e).scores.financial_health = 100 * ScoreUnit
          \/ get_financial_health_score(metrics) = 100 * HealthUnit
       /\ Rec(e).scores.technical = 50 * ScoreUnit

\* Every close is 0.1% above the one before (to the tick).
IsSteadyUptrend(h) ==
  \A i \in 1..(Len(h) - 1) :
    h[i + 1].Close = h[i].Close + h[i].Close \div 1000

\* C8: for at least 252 bars rising a steady 0.1% per bar the technical
\* score and the momentum score are both above 60.
C8_UptrendScoresAbove60 ==
  \A e \in Engines :
    (Returned(e) /\ Len(hist_data) >= 252 /\ IsSteadyUptrend(hist_data))
    => /\ Rec(e).scores.technical > 60 * ScoreUnit
       /\ Rec(e).scores.momentum > 60 * ScoreUnit

C10_OutputContract ==
  \A e \in Engines : Returned(e) =>
    /\ DOMAIN Rec(e).scores = ScoreNames
    /\ Len(Rec(e).factors) \in 0..5
    /\ Rec(e).action \in Actions

\* A record for a bundle in which all six factor categories fire.
C10_Witness ==
  \E e \in Engines :
    /\ Returned(e)
    /\ Len(AllKeyFactors(metrics, Rec(e).scores.financial_health)) = 6
    /\ Len(Rec(e).factors) = 5


\* ------------------------------------------- the health index on its own
\* FinancialMetrics.get_financial_health_score applied to a bundle that
\* sets the five fields it reads; each value set holds the boundaries of
\* the field's ladder and a value inside every bucket.

HealthMarginValues == { 0, 50, 80, 120, 150, 200 }
HealthRoeValues == { 0, 80, 100, 150, 180, 250 }
HealthDebtValues == { 0, 300, 400, 700, 1500, 2000 }
HealthCurrentRatioValues == { 1000, 1100, 1300, 1500, 1800, 2500 }
HealthGrowthValues == { -100, 0, 30, 80, 120, 300 }

HealthFactors ==
  { "profit_margin", "roe", "debt_to_equity", "current_ratio",
    "revenue_growth" }

HealthInputs ==
  { [ NoMetrics EXCEPT !["profit_margin"] = a, !["roe"] = b,
                       !["debt_to_equity"] = c, !["current_ratio"] = d,
                       !["revenue_growth"] = e ] :
      a \in Opt(HealthMarginValues), b \in Opt(HealthRoeValues),
      c \in Opt(HealthDebtValues), d \in Opt(HealthCurrentRatioValues),
      e \in Opt(HealthGrowthValues) }

InitHealth ==
  /\ weights = [ e \in Engines |-> InitWeights ]
  /\ stock_info \in StockInfos
  /\ metrics \in HealthInputs
  /\ hist_data = << >>
  /\ ret = [ e \in Engines |-> << >> ]
  /\ ncalls = 0
  /\ probe = 0
  /\ verdict = << >>
  /\ result = << >>
  /\ converter = CurrencyConverter
  /\ now = 0

\* metrics_calc.get_financial_health_score(metrics)
GetFinancialHealthScore ==
  /\ result = << >>
  /\ result' = << [ call |-> "get_financial_health_score",
                    value |-> get_financial_health_score(metrics) ] >>
  /\ UNCHANGED << weights, stock_info, hist_data, metrics, ret, ncalls, probe,
                  verdict,
                  converter, now >>

SpecHealth == InitHealth /\ [][GetFinancialHealthScore]_vars

\* Whether the function `call` has been applied, and what it returned.
Applied(call) == result # << >> /\ result[1].call = call
Value == result[1].value

\* The factors of a bundle that are present, and the bundle that keeps
\* only factor k of a bundle.
PresentFactors(m) == { k \in HealthFactors : ~IsNone(m[k]) }
OnlyFactor(m, k) == [ NoMetrics EXCEPT ![k] = m[k] ]

\* The points of factor k of bundle m: what the index gives the factor
\* when it is the only one present, nothing when it is absent.
FactorPoints(m, k) ==
  IF IsNone(m[k]) THEN 0 ELSE get_financial_health_score(OnlyFactor(m, k))

\* C11: the health index scores its five optional factors independently:
\* each present factor contributes 0, 5, 10, 15 or 20 points, the points it
\* gets on its own whatever other factors are present or absent; the index
\* is the sum of the points divided by the number of present factors, and
\* 50 when no factor is present.
C11_HealthIndexAveragesPresentFactors ==
  Applied("get_financial_health_score") =>
    LET present == PresentFactors(metrics)
    IN /\ \A k \in present :
            FactorPoints(metrics, k) \in
              { p * HealthUnit : p \in { 0, 5, 10, 15, 20 } }
       /\ present = {} => Value = 50 * HealthUnit
       /\ present # {} =>
            Value * Cardinality(present) =
                FactorPoints(metrics, "profit_margin")
              + FactorPoints(metrics, "roe")
              + FactorPoints(metrics, "debt_to_equity")
              + FactorPoints(metrics, "current_ratio")
              + FactorPoints(metrics, "revenue_growth")

\* Three factors present with 20, 10 and 0 points, two absent: index 10.
C11_Witness ==
  /\ Applied("get_financial_health_score")
  /\ IsNone(metrics["profit_margin"]) /\ IsNone(metrics["current_ratio"])
  /\ metrics["roe"] = Some(250)
  /\ metrics["debt_to_equity"] = Some(700)
  /\ metrics["revenue_growth"] = Some(0)
  /\ Value = 10 * HealthUnit


\* C12: for every metrics bundle the engine's financial_health sub-score
\* equals the health index FinancialMetrics.get_financial_health_score
\* computes on the same bundle.
C12_EngineReusesHealthIndex ==
  \A e \in Engines :
    Returned(e) =>
      Rec(e).scores.financial_health * HealthUnit
        = get_financial_health_score(metrics) * ScoreUnit

\* The templates of the key factors a record lists.
FactorTexts(rec) == { rec.factors[i][1] : i \in 1..Len(rec.factors) }

\* C13: a field whose value is a true zero is treated as present by the
\* scorers and by the factor generator: debt_to_equity = 0 is scored in
\* the financial health score (25 points when it is the only field) and,
\* being below 0.5, yields the factor 'Conservative debt management'
\* whenever the list of five has room for it.
C13_ZeroIsPresent ==
  \A e \in Engines :
    (Returned(e) /\ Get(metrics, "debt_to_equity") = Some(0)) =>
      /\ metrics = [ NoMetrics EXCEPT !["debt_to_equity"] = Some(0) ]
           => Rec(e).scores.financial_health = 25 * ScoreUnit
      /\ Len(Rec(e).factors) < 5
           => "Conservative debt management" \in FactorTexts(Rec(e))


\* ------------------------------------------ calculate_metrics on its own

\* The provider's mappings: one with no fundamentals key, one with every
\* key, one with keys that are missing, None or a true zero.
FundamentalsInfos ==
  StockInfos
  \cup { [ symbol |-> "SHOP.TO", currency |-> "CAD",
           trailingPE |-> Some(12000), forwardPE |-> Some(11000),
           priceToBook |-> Some(1800),
           priceToSalesTrailing12Months |-> Some(2500),
           profitMargins |-> Some(120), operatingMargins |-> Some(150),
           grossMargins |-> Some(400), returnOnEquity |-> Some(180),
           returnOnAssets |-> Some(60), debtToEquity |-> Some(400),
           currentRatio |-> Some(1800), quickRatio |-> Some(1200),
           revenueGrowth |-> Some(120), earningsGrowth |-> Some(150),
           dividendYield |-> Some(20), payoutRatio |-> Some(300),
           beta |-> Some(1300), marketCap |-> Some(5000) ],
         [ symbol |-> "SHOP.TO", trailingPE |-> None,
           debtToEquity |-> Some(0), dividendYield |-> Some(0),
           beta |-> Some(700) ] }

\* A close of 10.00, in ticks.
StartPrice == 10 * 100

Shapes ==
  { "flat", "rise", "fall", "peak", "trough", "first_high", "stairs",
    "zigzag", "dip" }

\* n closes of a given shape around StartPrice.
ShapeCloses(n, shape) ==
  [ i \in 1..n |->
      StartPrice
      + CASE shape = "flat" -> 0
          [] shape = "rise" -> i
          [] shape = "fall" -> n - i
          [] shape = "peak" -> IF 2 * i <= n THEN i ELSE n - i
          [] shape = "trough" -> IF 2 * i <= n THEN n - i ELSE i
          [] shape = "first_high" -> IF i = 1 THEN 100 ELSE 0
          [] shape = "stairs" -> 10 * (i \div 50)
          [] shape = "zigzag" -> 5 * (i % 2)
          [] shape = "dip" -> IF i = n - 3 THEN -50 ELSE 0 ]

\* Bars with all four columns: the high and the low lie `spread` ticks
\* above and below the close.
Candles(closes, spread) ==
  [ i \in 1..Len(closes) |->
      [ Close |-> closes[i], High |-> closes[i] + spread,
        Low |-> closes[i] - spread, Volume |-> BaseVolume ] ]

\* The lengths around the empty series and the 252-bar threshold.
MetricsLengths == { 0, 1, 251, 252, 253, MaxBars }

MetricsHistInputs ==
  { Candles(ShapeCloses(n, shape), spread) :
      n \in MetricsLengths, shape \in Shapes, spread \in { 0, 3 } }

InitMetrics ==
  /\ weights = [ e \in Engines |-> InitWeights ]
  /\ stock_info \in FundamentalsInfos
  /\ metrics = NoMetrics
  /\ hist_data \in MetricsHistInputs
  /\ ret = [ e \in Engines |-> << >> ]
  /\ ncalls = 0
  /\ probe = 0
  /\ verdict = << >>
  /\ result = << >>
  /\ converter = CurrencyConverter
  /\ now = 0

\* metrics_data = metrics_calc.calculate_metrics(stock_info, hist_data)
CalculateMetrics ==
  /\ result = << >>
  /\ result' = << [ call |-> "calculate_metrics",
                    value |-> calculate_metrics(stock_info, hist_data) ] >>
  /\ UNCHANGED << weights, stock_info, hist_data, metrics, ret, ncalls, probe,
                  verdict,
                  converter, now >>

SpecMetrics == InitMetrics /\ [][CalculateMetrics]_vars

DerivedKeys ==
  { "volatility", "sharpe_ratio", "max_drawdown", "52_week_high",
    "52_week_low", "price_vs_52w_high", "price_vs_52w_low" }

\* C14: the bundle calculate_metrics returns holds the seven derived
\* statistics exactly when the series has at least 252 bars, and none of
\* them when it has fewer; the eighteen passthrough keys are in the bundle
\* in both cases.
C14_DerivedStatisticsNeedAYear ==
  Applied("calculate_metrics") =>
    /\ Len(hist_data) >= 252 => DerivedKeys \subseteq DOMAIN Value
    /\ Len(hist_data) < 252 => DerivedKeys \cap DOMAIN Value = {}
    /\ DOMAIN InfoKeyOf \subseteq DOMAIN Value
    /\ Cardinality(DOMAIN InfoKeyOf) = 18

\* A series of exactly 252 bars: all 25 keys.
C14_Witness ==
  /\ Applied("calculate_metrics")
  /\ Len(hist_data) = 252
  /\ DOMAIN Value = DerivedKeys \cup DOMAIN InfoKeyOf
  /\ Value["pe_ratio"] = Some(12000)
  /\ Value["52_week_high"] > Value["52_week_low"]

NonDecreasing(h) ==
  \A i \in 1..(Len(h) - 1) : h[i].Close <= h[i + 1].Close

\* C15: for a series of at least 252 bars with positive closes,
\* max_drawdown is at most 0, and it is 0 when the closes never fall.
C15_MaxDrawdownNotPositive ==
  (Applied("calculate_metrics") /\ Len(hist_data) >= 252) =>
    LET dd == Value["max_drawdown"]
    IN /\ dd[2] > 0
       /\ dd[1] <= 0
       /\ NonDecreasing(hist_data) => dd[1] = 0

\* The closes rise to a peak of 1126 and fall back to 1000: -126/1126.
C15_Witness ==
  /\ Applied("calculate_metrics")
  /\ Len(hist_data) = 252
  /\ hist_data[126].Close = StartPrice + 126
  /\ ~NonDecreasing(hist_data)
  /\ Value["max_drawdown"] = << -126, StartPrice + 126 >>


\* ------------------------------------ the technical summary on its own

\* n closes at BaseClose, the nineteen before the last moved by `run`
\* thousandths and the last by `last` thousandths: the series on which the
\* price, the 20-bar mean and the 50-bar mean cross or coincide.
ReversalCloses(n, run, last) ==
  [ i \in 1..n |->
      IF i = n THEN BaseClose + (BaseClose \div 1000) * last
      ELSE IF i > n - 20 THEN BaseClose + (BaseClose \div 1000) * run
      ELSE BaseClose ]

TrendInputs ==
  { Bars(ReversalCloses(n, run, last), Volumes(n, 10)) :
      n \in { 49, 50, 60 }, run \in { -10, 10 },
      last \in { -190, -10, 10, 190 } }

InitSummary ==
  /\ weights = [ e \in Engines |-> InitWeights ]
  /\ stock_info \in StockInfos
  /\ metrics = NoMetrics
  /\ hist_data \in HistInputs \cup TrendInputs
  /\ ret = [ e \in Engines |-> << >> ]
  /\ ncalls = 0
  /\ probe = 0
  /\ verdict = << >>
  /\ result = << >>
  /\ converter = CurrencyConverter
  /\ now = 0

\* analyzer.get_technical_summary(hist_data)
GetTechnicalSummary ==
  /\ result = << >>
  /\ result' = << [ call |-> "get_technical_summary",
                    value |-> get_technical_summary(hist_data) ] >>
  /\ UNCHANGED << weights, stock_info, hist_data, metrics, ret, ncalls, probe,
                  verdict,
                  converter, now >>

\* analyzer.calculate_price_momentum(hist_data, period)
CalculatePriceMomentum ==
  /\ result = << >>
  /\ \E period \in { 5, 10, 20 } :
       result' = << [ call |-> "calculate_price_momentum", period |-> period,
                      value |-> calculate_price_momentum(hist_data, period) ] >>
  /\ UNCHANGED << weights, stock_info, hist_data, metrics, ret, ncalls, probe,
                  verdict,
                  converter, now >>

\* analyzer.calculate_rsi(hist_data), the last value of the series
CalculateRsi ==
  /\ result = << >>
  /\ result' = << [ call |-> "calculate_rsi",
                    value |-> calculate_rsi(hist_data) ] >>
  /\ UNCHANGED << weights, stock_info, hist_data, metrics, ret, ncalls, probe,
                  verdict,
                  converter, now >>

\* analyzer.analyze_trend(hist_data)
AnalyzeTrend ==
  /\ result = << >>
  /\ result' = << [ call |-> "analyze_trend",
                    value |-> analyze_trend(hist_data) ] >>
  /\ UNCHANGED << weights, stock_info, hist_data, metrics, ret, ncalls, probe,
                  verdict,
                  converter, now >>

SpecSummary ==
  InitSummary
  /\ [][GetTechnicalSummary \/ CalculatePriceMomentum \/ CalculateRsi
         \/ AnalyzeTrend]_vars

\* C16: on a series of fewer than 50 bars get_technical_summary returns
\* the insufficient-data marker for every field: trend and volume are
\* 'Insufficient data', momentum and RSI are absent (None, or no such key),
\* and the list of signals is empty.
C16_ShortSeriesIsInsufficient ==
  (Applied("get_technical_summary") /\ Len(hist_data) < 50) =>
    /\ Value.trend = "Insufficient data"
    /\ Value.volume = "Insufficient data"
    /\ Value.momentum = None
    /\ ("rsi" \notin DOMAIN Value \/ Value["rsi"] = None)
    /\ Value.signals = << >>

\* 49 bars, enough for RSI, momentum and volume but not for the summary.
C16_Witness ==
  /\ Applied("get_technical_summary")
  /\ Len(hist_data) = 49
  /\ calculate_price_momentum(hist_data, 10) # None
  /\ Value = [ trend |-> "Insufficient data", momentum |-> None,
               volume |-> "Insufficient data", signals |-> << >> ]


\* ------------------------------------------ the sub-scores on their own
\* Each scorer of the engine applied to the callers' data: the valuation
\* and growth bundles, and the price series, to which are added the series
\* whose move is exactly as old as a lookback of the momentum score.

LookbackAges == { 5, 10, 20 }

ScorerHistInputs ==
  HistInputs
  \cup { Bars(StepCloses(n, k, p), Volumes(n, 10)) :
           n \in ShortLengths, k \in LookbackAges, p \in RecentMoves }

\* n closes that alternate between BaseClose and a thousandths above it.
ZigzagCloses(n, a) ==
  [ i \in 1..n |-> BaseClose + (i % 2) * a * (BaseClose \div 1000) ]

\* What the risk level reads: beta and debt/equity on and around their
\* thresholds, with no series and with calm and nervous series on both
\* sides of the 30-bar guard.
RiskInputs ==
  { [ NoMetrics EXCEPT !["beta"] = b, !["debt_to_equity"] = d ] :
      b \in Opt({ 1000, 1200, 1300, 1500, 1600 }),
      d \in Opt({ 0, 1000, 1500, 2000, 2500 }) }
  \X ({ << >> }
      \cup { Bars(ZigzagCloses(n, a), Volumes(n, 10)) :
               n \in { 3, 29, 30, 50 }, a \in { 10, 20, 30 } })

ScorerInputs ==
  ((ValuationInputs \cup GrowthInputs) \X { << >> })
  \cup ({ NoMetrics } \X ScorerHistInputs)
  \cup RiskInputs

InitScorers ==
  /\ weights = [ e \in Engines |-> InitWeights ]
  /\ stock_info \in StockInfos
  /\ \E in \in ScorerInputs : metrics = in[1] /\ hist_data = in[2]
  /\ ret = [ e \in Engines |-> << >> ]
  /\ ncalls = 0
  /\ probe = 0
  /\ verdict = << >>
  /\ result = << >>
  /\ converter = CurrencyConverter
  /\ now = 0

\* recommender.calculate_valuation_score(metrics)
CalculateValuationScore ==
  /\ result = << >>
  /\ result' = << [ call |-> "calculate_valuation_score",
                    value |-> calculate_valuation_score(metrics) ] >>
  /\ UNCHANGED << weights, stock_info, hist_data, metrics, ret, ncalls, probe,
                  verdict,
                  converter, now >>

\* recommender.calculate_growth_score(metrics)
CalculateGrowthScore ==
  /\ result = << >>
  /\ result' = << [ call |-> "calculate_growth_score",
                    value |-> calculate_growth_score(metrics) ] >>
  /\ UNCHANGED << weights, stock_info, hist_data, metrics, ret, ncalls, probe,
                  verdict,
                  converter, now >>

\* recommender.calculate_technical_score(hist_data)
CalculateTechnicalScore ==
  /\ result = << >>
  /\ result' = << [ call |-> "calculate_technical_score",
                    value |-> calculate_technical_score(hist_data) ] >>
  /\ UNCHANGED << weights, stock_info, hist_data, metrics, ret, ncalls, probe,
                  verdict,
                  converter, now >>

\* recommender.calculate_momentum_score(hist_data)
CalculateMomentumScore ==
  /\ result = << >>
  /\ result' = << [ call |-> "calculate_momentum_score",
                    value |-> calculate_momentum_score(hist_data) ] >>
  /\ UNCHANGED << weights, stock_info, hist_data, metrics, ret, ncalls, probe,
                  verdict,
                  converter, now >>

\* recommender.calculate_risk_level(metrics, hist_data)
CalculateRiskLevel ==
  /\ result = << >>
  /\ result' = << [ call |-> "calculate_risk_level",
                    value |-> calculate_risk_level(metrics, hist_data) ] >>
  /\ UNCHANGED << weights, stock_info, hist_data, metrics, ret, ncalls, probe,
                  verdict,
                  converter, now >>

NextScorers ==
  \/ CalculateRiskLevel
  \/ CalculateValuationScore
  \/ CalculateGrowthScore
  \/ CalculateTechnicalScore
  \/ CalculateMomentumScore

SpecScorers == InitScorers /\ [][NextScorers]_vars


\* The points of the first rung v satisfies, top rung first: v < bound on a
\* ladder read downwards (below), v > bound otherwise; `rest` when v
\* satisfies no rung.
RECURSIVE Rung(_, _, _, _, _)
Rung(v, below, bounds, points, rest) ==
  IF bounds = << >> THEN rest
  ELSE IF (below /\ v < Head(bounds)) \/ (~below /\ v > Head(bounds))
    THEN Head(points)
  ELSE Rung(v, below, Tail(bounds), Tail(points), rest)

\* The valuation score as an average of the three ladders over the ratios
\* that count: every present ratio, or only the present ones above zero.
ValuationAverage(m, positive_only) ==
  LET counts(x) == ~IsNone(x) /\ (positive_only => Val(x) > 0)
      pe == m["pe_ratio"]
      pb == m["price_to_book"]
      ps == m["price_to_sales"]
      pts == << 25, 20, 15, 10, 5 >>
      sum == (IF counts(pe)
                THEN Rung(Val(pe), TRUE,
                          << 10000, 15000, 20000, 25000, 35000 >>, pts, 0)
              ELSE 0)
           + (IF counts(pb)
                THEN Rung(Val(pb), TRUE,
                          << 1000, 1500, 2000, 3000, 4000 >>, pts, 0)
              ELSE 0)
           + (IF counts(ps)
                THEN Rung(Val(ps), TRUE,
                          << 1000, 2000, 3000, 5000, 7000 >>, pts, 0)
              ELSE 0)
      n == Cardinality({ k \in { "pe_ratio", "price_to_book", "price_to_sales" } :
                          counts(m[k]) })
  IN IF n = 0 THEN 50 * ScoreUnit ELSE (sum * ScoreUnit) \div n

CloseBefore(h, k) == h[Len(h) - k].Close
MeanTimes(h, column, k) ==
  LET n == Len(h)
      RECURSIVE Sum(_)
      Sum(i) == IF i > n THEN 0 ELSE h[i][column] + Sum(i + 1)
  IN Sum(n - k + 1)

C19_GrowthScoreAveragesPresent ==
  Applied("calculate_growth_score") =>
    LET rg == metrics["revenue_growth"]
        eg == metrics["earnings_growth"]
        pts(x) == IF IsNone(x) THEN 0
                  ELSE Rung(Val(x), FALSE, << 250, 150, 100, 50, 0 >>,
                            << 25, 20, 15, 10, 5 >>, 0)
        n == (IF IsNone(rg) THEN 0 ELSE 1) + (IF IsNone(eg) THEN 0 ELSE 1)
    IN /\ n = 0 => Value = 50 * ScoreUnit
       /\ n > 0 => n * Value = (pts(rg) + pts(eg)) * ScoreUnit

\* Revenue shrinking by 10% beside earnings growing by 40%: (0 + 25) / 2.
C19_Witness ==
  /\ Applied("calculate_growth_score")
  /\ metrics["revenue_growth"] = Some(-100)
  /\ metrics["earnings_growth"] = Some(400)
  /\ 2 * Value = 25 * ScoreUnit

\* C20: for a series of at least 30 bars calculate_momentum_score is the
\* average of three buckets, one per lookback of 5, 10 and 20 days, each
\* scoring the percentage change between the last close and the close
\* that many bars earlier (> 10%: 25, > 5%: 20, > 2%: 15, > 0%: 10,
\* > -2%: 8, > -5%: 5, else 0).
C20_MomentumOverLookbacks ==
  (Applied("calculate_momentum_score") /\ Len(hist_data) >= 30) =>
    LET last == CloseBefore(hist_data, 0)
        bucket(k) ==
          LET past == CloseBefore(hist_data, k)
          IN Rung(100 * (last - past), FALSE,
                  << 10 * past, 5 * past, 2 * past, 0, -2 * past, -5 * past >>,
                  << 25, 20, 15, 10, 8, 5 >>, 0)
    IN 3 * Value = (bucket(5) + bucket(10) + bucket(20)) * ScoreUnit


\* C21: calculate_price_momentum(df, period) returns 100 * (last close -
\* close period bars before the last bar) / (that close), comparing
\* close[t] with close[t - period], and returns None when the series has
\* fewer than period bars.
C21_MomentumComparesPeriodBarsBack ==
  Applied("calculate_price_momentum") =>
    LET period == result[1].period
        n == Len(hist_data)
    IN /\ n < period => Value = None
       /\ n = period => Value # None
       /\ n > period =>
            Value = Some(<< 100 * (CloseBefore(hist_data, 0)
                                   - CloseBefore(hist_data, period)),
                            CloseBefore(hist_data, period) >>)


\* The risk level from the counter over beta, debt/equity and, for a
\* series of at least min_bars bars, the annualized volatility: its square
\* is the fraction Volatility(h).squared in millionths, 0.4 squared is
\* 160000 millionths and 0.25 squared 62500.
RiskLevelWith(m, h, min_bars) ==
  LET beta == m["beta"]
      de == m["debt_to_equity"]
      v == Volatility(h).squared
      \* v[1] / v[2] > t, without the product t * v[2]
      exceeds(t) == v[1] > 0 /\ (v[1] - 1) \div t >= v[2]
      counter ==
          (IF IsNone(beta) THEN 0
           ELSE Rung(Val(beta), FALSE, << 1500, 1200 >>, << 2, 1 >>, 0))
        + (IF IsNone(de) THEN 0
           ELSE Rung(Val(de), FALSE, << 2000, 1000 >>, << 2, 1 >>, 0))
        + (IF Len(h) >= min_bars
             THEN (IF exceeds(160000) THEN 2 ELSE IF exceeds(62500) THEN 1
                   ELSE 0)
           ELSE 0)
  IN IF counter >= 4 THEN "High Risk"
     ELSE IF counter \in { 2, 3 } THEN "Medium Risk"
     ELSE "Low Risk"

\* C22 as stated: calculate_risk_level counts beta (> 1.5: +2, > 1.2: +1),
\* debt/equity (> 2.0: +2, > 1.0: +1) and the annualized volatility of the
\* series (> 0.4: +2, > 0.25: +1), High from 4, Medium for 2 or 3, else Low;
\* the volatility counts for every series that has one (three bars give
\* two returns and a standard deviation), whatever its length.
C22_VolatilityCountsAtAnyLength ==
  Applied("calculate_risk_level") =>
    Value = RiskLevelWith(metrics, hist_data, 3)

\* C22, amended: the same counter and levels, the volatility counting
\* only for a series of at least 30 bars; a shorter series adds nothing.
C22_VolatilityCountsFrom30Bars ==
  Applied("calculate_risk_level") =>
    Value = RiskLevelWith(metrics, hist_data, 30)

\* 29 bars swinging 3% a day beside a beta of 1.6: Medium, not High.
C22_Witness ==
  /\ Applied("calculate_risk_level")
  /\ Len(hist_data) = 29
  /\ hist_data[1].Close - hist_data[2].Close = 30 * (BaseClose \div 1000)
  /\ metrics["beta"] = Some(1600)
  /\ metrics["debt_to_equity"] = None
  /\ Value = "Medium Risk"


\* The category of a factor by its text, in the order of priority.
CategoryOf(text) ==
  CASE text \in { "Strong financial health with good profitability",
                  "Weak financial metrics requiring attention" } -> 1
    [] text \in { "Attractive P/E ratio of {:.1f}",
                  "High P/E ratio of {:.1f} suggests premium valuation" } -> 2
    [] text \in { "Strong revenue growth of {:.1f}%",
                  "Declining revenue growth of {:.1f}%" } -> 3
    [] text = "Attractive dividend yield of {:.1f}%" -> 4
    [] text \in { "High volatility with beta of {:.1f}",
                  "Low volatility with beta of {:.1f}" } -> 5
    [] text \in { "High debt levels may pose financial risk",
                  "Conservative debt management" } -> 6

\* The categories whose condition holds for a bundle and a financial
\* score; the code's conditions on a metric need it non-zero.
FiredCategories(m, financial_score) ==
  LET holds(k, low, high) ==
        /\ ~IsNone(m[k]) /\ Val(m[k]) # 0
        /\ (Val(m[k]) < low \/ Val(m[k]) > high)
  IN (IF financial_score > 70 * ScoreUnit \/ financial_score < 40 * ScoreUnit
        THEN { 1 } ELSE {})
     \cup (IF holds("pe_ratio", 15000, 25000) THEN { 2 } ELSE {})
     \cup (IF holds("revenue_growth", 0, 150) THEN { 3 } ELSE {})
     \cup (IF holds("dividend_yield", 0, 40) /\ Val(m["dividend_yield"]) > 40
           THEN { 4 } ELSE {})
     \cup (IF holds("beta", 800, 1500) THEN { 5 } ELSE {})
     \cup (IF holds("debt_to_equity", 500, 2000) THEN { 6 } ELSE {})

\* C23: generate_key_factors emits at most one factor per category in the
\* order financial health, P/E, revenue growth, dividend yield, beta,
\* debt/equity and returns the first five: the list is a prefix of the
\* ordered candidates, and when all six fire, debt/equity is dropped.
C23_KeyFactorsArePrefix ==
  \A e \in Engines : Returned(e) =>
    LET f == Rec(e).factors
        cat(i) == CategoryOf(f[i][1])
        listed == { cat(i) : i \in 1..Len(f) }
        fired == FiredCategories(metrics, Rec(e).scores.financial_health)
    IN /\ \A i, j \in 1..Len(f) : i < j => cat(i) < cat(j)
       /\ listed \subseteq fired
       /\ Len(f) = Min2(5, Cardinality(fired))
       /\ \A c \in fired \ listed : \A d \in listed : d < c
       /\ fired = 1..6 => listed = 1..5

\* All six categories fire; the list ends with the beta factor.
C23_Witness ==
  \E e \in Engines :
    /\ Returned(e)
    /\ FiredCategories(metrics, Rec(e).scores.financial_health) = 1..6
    /\ Len(Rec(e).factors) = 5
    /\ CategoryOf(Rec(e).factors[5][1]) = 5


\* C27: every sub-score the engine produces is either exactly 50 (its
\* inputs are absent) or at most 25; hence overall_score <= 50, with
\* equality only when all five sub-scores are the default, and the action
\* is never BUY or STRONG BUY.
C27_SubScoresAtMost25OrDefault ==
  \A e \in Engines : Returned(e) =>
    LET s == Rec(e).scores
    IN /\ \A k \in ScoreNames :
            s[k] = 50 * ScoreUnit \/ s[k] <= 25 * ScoreUnit
       /\ Rec(e).overall_score <= 50 * OverallUnit
       /\ Rec(e).overall_score = 50 * OverallUnit
            => \A k \in ScoreNames : s[k] = 50 * ScoreUnit
       /\ Rec(e).action \notin { "BUY", "STRONG BUY" }

\* Every fundamental in its top bucket and a 300-bar uptrend: each
\* sub-score is at most 25 and the action is below HOLD.
C27_Witness ==
  \E e \in Engines :
    /\ Returned(e)
    /\ Len(hist_data) >= 50
    /\ Rec(e).scores.financial_health = 25 * ScoreUnit
    /\ Rec(e).scores.valuation = 25 * ScoreUnit
    /\ \A k \in ScoreNames : Rec(e).scores[k] <= 25 * ScoreUnit
    /\ Rec(e).action \in { "SELL", "STRONG SELL" }


\* C24: calculate_rsi never yields an infinite or undefined value where
\* its window is full: when the last 14 changes hold no fall and some rise
\* (mean loss 0, mean gain > 0) the RSI is 100, and when they are all zero
\* (flat closes) the RSI is 50.
C24_RsiIsDefined ==
  (Applied("calculate_rsi") /\ Len(hist_data) >= 15) =>
    LET n == Len(hist_data)
        window == (n - 13)..n
        delta(i) == hist_data[i].Close - hist_data[i - 1].Close
        no_fall == \A i \in window : delta(i) >= 0
        some_rise == \E i \in window : delta(i) > 0
    IN /\ Value # None
       /\ Val(Value) # Nan
       /\ Val(Value)[2] # 0
       /\ (no_fall /\ some_rise) => Val(Value)[1] = 100 * Val(Value)[2]
       /\ (no_fall /\ ~some_rise) => Val(Value)[1] = 50 * Val(Value)[2]


\* C25: for a series of at least 252 bars whose returns have a standard
\* deviation of zero (constant closes), calculate_price_metrics reports
\* the Sharpe ratio as an explicit fallback value, never as the infinity
\* or the nan of a division by the zero volatility.
C25_SharpeHasFallback ==
  (Applied("calculate_metrics") /\ Len(hist_data) >= 252
     /\ ConstantCloses(hist_data)) =>
    Value["sharpe_ratio"] \notin { "inf", "-inf", "nan" }


\* C26: analyze_trend returns 'Insufficient data' for fewer than 50 bars
\* and otherwise exactly one of five states, p being the last close, m20
\* and m50 the means of the last 20 and 50 closes: Strong Uptrend iff
\* p > m20 > m50, Weak Uptrend iff p > m20 and m20 < m50, Strong Downtrend
\* iff p < m20 < m50, Weak Downtrend iff p < m20 and m20 > m50, and
\* Sideways in every remaining case, that is whenever p = m20 or m20 = m50.
C26_TrendIsOneOfFiveStates ==
  Applied("analyze_trend") =>
    IF Len(hist_data) < 50 THEN Value = "Insufficient data"
    ELSE LET p20 == 20 * CloseBefore(hist_data, 0)
             m20x20 == MeanTimes(hist_data, "Close", 20)
             m20x50 == 5 * m20x20
             m50x50 == 2 * MeanTimes(hist_data, "Close", 50)
         IN /\ Value \in { "Strong Uptrend", "Weak Uptrend", "Strong Downtrend",
                            "Weak Downtrend", "Sideways" }
            /\ Value = "Strong Uptrend" <=> (p20 > m20x20 /\ m20x50 > m50x50)
            /\ Value = "Weak Uptrend" <=> (p20 > m20x20 /\ m20x50 < m50x50)
            /\ Value = "Strong Downtrend" <=> (p20 < m20x20 /\ m20x50 < m50x50)
            /\ Value = "Weak Downtrend" <=> (p20 < m20x20 /\ m20x50 > m50x50)
            /\ Value = "Sideways" <=> (p20 = m20x20 \/ m20x50 = m50x50)

\* A series of at least 50 bars whose last close is above a 20-bar mean
\* that equals the 50-bar mean has been classified, as Sideways.
C26_Witness ==
  /\ Applied("analyze_trend")
  /\ Len(hist_data) >= 50
  /\ 20 * CloseBefore(hist_data, 0) > MeanTimes(hist_data, "Close", 20)
  /\ 5 * MeanTimes(hist_data, "Close", 20) = 2 * MeanTimes(hist_data, "Close", 50)
  /\ Value = "Sideways"


Signalled(text) == \E i \in DOMAIN Value.signals : Value.signals[i] = text

\* C28: in every summary get_technical_summary produces for at least 50
\* bars, the signal 'Price above both short and long-term moving averages'
\* is present exactly when the trend is 'Strong Uptrend', the signal
\* 'Price below both short and long-term moving averages' exactly when the
\* trend is 'Strong Downtrend', and the two are never present together.
C28_AverageSignalsFollowTrend ==
  (Applied("get_technical_summary") /\ Len(hist_data) >= 50) =>
    LET above == Signalled("Price above both short and long-term moving averages")
        below == Signalled("Price below both short and long-term moving averages")
    IN /\ above <=> Value.trend = "Strong Uptrend"
       /\ below <=> Value.trend = "Strong Downtrend"
       /\ ~(above /\ below)

\* A summary of a strong uptrend carries the signal of a price above both
\* averages and not the one of a price below them.
C28_Witness ==
  /\ Applied("get_technical_summary")
  /\ Len(hist_data) >= 50
  /\ Value.trend = "Strong Uptrend"
  /\ Signalled("Price above both short and long-term moving averages")
  /\ ~Signalled("Price below both short and long-term moving averages")


\* ------------------------------------ the currency converter on its own
\* converter = CurrencyConverter() (app.py 332) serves any sequence of
\* get_exchange_rate calls while the clock advances.

MaxTime == 3
MaxRateCalls == 3

\* The pairs asked for: the two of the application (app.py 642-643), one
\* with no fallback rate of its own, and one of a currency with itself.
Pairs ==
  { << "USD", "CAD" >>, << "CAD", "USD" >>, << "USD", "EUR" >>,
    << "CAD", "CAD" >> }

InitConverter ==
  /\ weights = [ e \in Engines |-> InitWeights ]
  /\ stock_info \in StockInfos
  /\ metrics = NoMetrics
  /\ hist_data = << >>
  /\ ret = [ e \in Engines |-> << >> ]
  /\ ncalls = 0
  /\ probe = 0
  /\ verdict = << >>
  /\ result = << >>
  /\ converter = CurrencyConverter
  /\ now = 0

\* converter.get_exchange_rate(from_currency, to_currency) at the time
\* `now`, the two APIs answering as they please.
GetExchangeRate ==
  /\ ncalls < MaxRateCalls
  /\ \E pair \in Pairs, primary \in Responses, alternative \in Responses :
       LET from_currency == pair[1]
           to_currency == pair[2]
           out == get_exchange_rate(converter, from_currency, to_currency, now,
                                    primary, alternative)
       IN /\ converter' = out.self
          /\ result' = << [ call |-> "get_exchange_rate",
                            from_currency |-> from_currency,
                            to_currency |-> to_currency,
                            at |-> now,
                            primary |-> primary,
                            alternative |-> alternative,
                            raised |-> out.raised,
                            value |-> out.value,
                            served |-> out.served ] >>
  /\ ncalls' = ncalls + 1
  /\ UNCHANGED << weights, stock_info, hist_data, metrics, ret, probe, verdict,
                  now >>

\* Time passes between two calls.
Tick ==
  /\ now < MaxTime
  /\ now' = now + 1
  /\ UNCHANGED << weights, stock_info, hist_data, metrics, ret, ncalls, probe,
                  verdict, result, converter >>

NextConverter == GetExchangeRate \/ Tick

SpecConverter == InitConverter /\ [][NextConverter]_vars

\* C29: a rate get_exchange_rate serves from the cache was fetched less
\* than cache_duration before the call that returns it, whatever other
\* pairs were fetched in between.
C29_CachedRateIsUnderAnHourOld ==
  (Applied("get_exchange_rate") /\ result[1].served = "cache") =>
    \E fetched_at \in 0..result[1].at, api \in { 0, 1 } :
      /\ Value = Quote(result[1].from_currency, result[1].to_currency,
                       fetched_at, api)
      /\ result[1].at - fetched_at < cache_duration


\* The cache test of lines 22-24 on the converter as it is before a call.
ServedFromCache(from_currency, to_currency) ==
  /\ cache_key(from_currency, to_currency) \in DOMAIN converter.cache
  /\ converter.last_update # None
  /\ now - Val(converter.last_update) < cache_duration

\* C30: a call of get_exchange_rate in which the primary and the
\* alternative fetch both fail raises nothing, returns the fallback rate
\* (1.35 for USD to CAD, 0.74 for CAD to USD, 1.0 for any other pair) and
\* leaves cache and last_update as they were; the cache changes only by
\* storing a rate that was fetched, and every call, the one that follows a
\* fallback included, attempts a fetch unless the pair is one currency or
\* the cache test passes.
C30_FailedFetchFallsBack ==
  [][ ncalls' = ncalls + 1 =>
        LET this == result'[1]
            from_currency == this.from_currency
            to_currency == this.to_currency
            attempted == this.served \in { "fetch", "fallback" }
            failed == /\ from_currency # to_currency
                      /\ ~ServedFromCache(from_currency, to_currency)
                      /\ this.primary # "rate"
                      /\ this.alternative # "rate"
        IN /\ ~this.raised
           /\ failed =>
                /\ this.value =
                     (IF from_currency = "USD" /\ to_currency = "CAD" THEN 13500
                      ELSE IF from_currency = "CAD" /\ to_currency = "USD"
                        THEN 7400
                      ELSE 10000)
                /\ this.served = "fallback"
                /\ converter' = converter
           /\ converter' # converter =>
                /\ this.served = "fetch"
                /\ \E api \in { 0, 1 } :
                     this.value = Quote(from_currency, to_currency, now, api)
                /\ converter'.cache[cache_key(from_currency, to_currency)]
                     = this.value
                /\ converter'.last_update = Some(now)
           /\ attempted <=> ( /\ from_currency # to_currency
                              /\ ~ServedFromCache(from_currency, to_currency) )
     ]_vars

\* Both APIs have failed for USD to CAD while an expired rate of the pair
\* was cached: the call returned 1.35 and the cache still holds the old
\* rate.
C30_Witness ==
  /\ Applied("get_exchange_rate")
  /\ result[1].from_currency = "USD"
  /\ result[1].to_currency = "CAD"
  /\ result[1].primary = "error"
  /\ result[1].alternative = "no rate"
  /\ result[1].served = "fallback"
  /\ Value = 13500
  /\ cache_key("USD", "CAD") \in DOMAIN converter.cache
  /\ converter.cache[cache_key("USD", "CAD")] # 13500

=============================================================================
